---------------------------- MODULE Spec2Model ----------------------------
(***************************************************************************)
(* Styled-text rendering of the bixolon crate: the StyledNode tree, its    *)
(* builders, and the depth-first renderer that turns a tree into the byte  *)
(* stream of ESC/POS style commands and text (src/src/style/text.rs), with *)
(* the command encoders of src/src/command/character.rs.                   *)
(*                                                                         *)
(* StyleSet, StyleSet::from_stack and style_transition_commands belong to  *)
(* the style module (src/style.rs), of which only style/text.rs is under   *)
(* src/; they are written from sections 3, 4.1 and 4.3 of the              *)
(* specification.                                                          *)
(***************************************************************************)
EXTENDS Integers, Sequences, FiniteSets, TLC

(***************************************************************************)
(* Bounds of the model.                                                    *)
(***************************************************************************)
\* Longest text of a leaf in the families that range over every string.
MaxTextLen == 2
\* Largest number of nodes of a tree of the general family.
MaxNodes == 4

(***************************************************************************)
(* Control bytes (src/src/command.rs).                                     *)
(***************************************************************************)
ESC == 27
GS == 29
DLE == 16
LF == 10
FF == 12

\* Bytes a text leaf is made of: 'A' and 'B'.
Alphabet == {65, 66}

(***************************************************************************)
(* Command encoders (src/src/command/character.rs).                        *)
(***************************************************************************)
\* u8::from(bool)
U8FromBool(b) == IF b THEN 1 ELSE 0

\* UnderlineThickness as u8
UnderlineThickness == [Off |-> 0, OneDot |-> 1, TwoDot |-> 2]

\* RotationMode as u8
RotationMode == [Off |-> 0, Clockwise90 |-> 1]

SetEmphasized(on) == <<ESC, 69, U8FromBool(on)>>

SetUnderline(thickness) == <<ESC, 45, UnderlineThickness[thickness]>>

SetDoubleStrike(on) == <<ESC, 71, U8FromBool(on)>>

SetUpsideDown(on) == <<ESC, 123, U8FromBool(on)>>

SetRotation(mode) == <<ESC, 86, RotationMode[mode]>>

SetReverse(on) == <<GS, 66, U8FromBool(on)>>

(***************************************************************************)
(* StyleSet: the attribute set (specification, section 3).                 *)
(***************************************************************************)
UnderlineLevels == {"None", "Single", "Double"}

StyleSet ==
    [bold : BOOLEAN, underline : UnderlineLevels, double_strike : BOOLEAN,
     reverse : BOOLEAN, upside_down : BOOLEAN, rotated : BOOLEAN]

StyleSetDefault ==
    [bold |-> FALSE, underline |-> "None", double_strike |-> FALSE,
     reverse |-> FALSE, upside_down |-> FALSE, rotated |-> FALSE]

with_bold(s, on) == [s EXCEPT !.bold = on]

with_underline(s, on) == [s EXCEPT !.underline = IF on THEN "Single" ELSE "None"]

with_double_underline(s, on) == [s EXCEPT !.underline = IF on THEN "Double" ELSE "None"]

with_reverse(s, on) == [s EXCEPT !.reverse = on]

with_double_strike(s, on) == [s EXCEPT !.double_strike = on]

with_upside_down(s, on) == [s EXCEPT !.upside_down = on]

with_rotated(s, on) == [s EXCEPT !.rotated = on]

(***************************************************************************)
(* Combination rule (specification, section 4.1): OR of the booleans, the  *)
(* strongest underline, folded over the stack from the outermost entry.    *)
(***************************************************************************)
StrongerUnderline(a, b) ==
    IF a = "Double" \/ b = "Double" THEN "Double"
    ELSE IF a = "Single" \/ b = "Single" THEN "Single"
    ELSE "None"

Combine(a, b) ==
    [bold |-> a.bold \/ b.bold,
     underline |-> StrongerUnderline(a.underline, b.underline),
     double_strike |-> a.double_strike \/ b.double_strike,
     reverse |-> a.reverse \/ b.reverse,
     upside_down |-> a.upside_down \/ b.upside_down,
     rotated |-> a.rotated \/ b.rotated]

RECURSIVE from_stack(_)
from_stack(stack) ==
    IF stack = <<>> THEN StyleSetDefault
    ELSE Combine(from_stack(SubSeq(stack, 1, Len(stack) - 1)), stack[Len(stack)])

(***************************************************************************)
(* Transition function (specification, section 4.3): one command for each  *)
(* attribute whose value differs, in the canonical order bold, underline,  *)
(* double-strike, reverse, upside-down, rotated.  The result is a sequence *)
(* of commands, each the byte sequence its encoder produces.               *)
(***************************************************************************)
ThicknessOf(level) ==
    IF level = "Double" THEN "TwoDot"
    ELSE IF level = "Single" THEN "OneDot"
    ELSE "Off"

\* A mutation of style_transition_commands: stepping down from Double to
\* Single emits nothing.
style_transition_commands_NoStepDown(from, to) ==
    (IF from.bold # to.bold THEN <<SetEmphasized(to.bold)>> ELSE <<>>)
    \o (IF from.underline # to.underline
           /\ ~(from.underline = "Double" /\ to.underline = "Single")
        THEN <<SetUnderline(ThicknessOf(to.underline))>> ELSE <<>>)
    \o (IF from.double_strike # to.double_strike
        THEN <<SetDoubleStrike(to.double_strike)>> ELSE <<>>)
    \o (IF from.reverse # to.reverse THEN <<SetReverse(to.reverse)>> ELSE <<>>)
    \o (IF from.upside_down # to.upside_down
        THEN <<SetUpsideDown(to.upside_down)>> ELSE <<>>)
    \o (IF from.rotated # to.rotated
        THEN <<SetRotation(IF to.rotated THEN "Clockwise90" ELSE "Off")>> ELSE <<>>)

\* A mutation of style_transition_commands: the underline is switched off
\* from Double by way of Single.
style_transition_commands_TwoStepOff(from, to) ==
    (IF from.bold # to.bold THEN <<SetEmphasized(to.bold)>> ELSE <<>>)
    \o (IF from.underline = "Double" /\ to.underline = "None"
        THEN <<SetUnderline("OneDot"), SetUnderline("Off")>>
        ELSE IF from.underline # to.underline
        THEN <<SetUnderline(ThicknessOf(to.underline))>> ELSE <<>>)
    \o (IF from.double_strike # to.double_strike
        THEN <<SetDoubleStrike(to.double_strike)>> ELSE <<>>)
    \o (IF from.reverse # to.reverse THEN <<SetReverse(to.reverse)>> ELSE <<>>)
    \o (IF from.upside_down # to.upside_down
        THEN <<SetUpsideDown(to.upside_down)>> ELSE <<>>)
    \o (IF from.rotated # to.rotated
        THEN <<SetRotation(IF to.rotated THEN "Clockwise90" ELSE "Off")>> ELSE <<>>)

\* A mutation of style_transition_commands: the commands that switch
\* attributes off come in the reverse of the order of those that switch
\* them on.
style_transition_commands_Mirrored(from, to) ==
    LET on ==
            (IF to.bold /\ ~from.bold THEN <<SetEmphasized(TRUE)>> ELSE <<>>)
            \o (IF from.underline # to.underline /\ to.underline # "None"
                THEN <<SetUnderline(ThicknessOf(to.underline))>> ELSE <<>>)
            \o (IF to.double_strike /\ ~from.double_strike
                THEN <<SetDoubleStrike(TRUE)>> ELSE <<>>)
            \o (IF to.reverse /\ ~from.reverse THEN <<SetReverse(TRUE)>> ELSE <<>>)
            \o (IF to.upside_down /\ ~from.upside_down
                THEN <<SetUpsideDown(TRUE)>> ELSE <<>>)
            \o (IF to.rotated /\ ~from.rotated THEN <<SetRotation("Clockwise90")>> ELSE <<>>)
        off ==
            (IF from.rotated /\ ~to.rotated THEN <<SetRotation("Off")>> ELSE <<>>)
            \o (IF from.upside_down /\ ~to.upside_down
                THEN <<SetUpsideDown(FALSE)>> ELSE <<>>)
            \o (IF from.reverse /\ ~to.reverse THEN <<SetReverse(FALSE)>> ELSE <<>>)
            \o (IF from.double_strike /\ ~to.double_strike
                THEN <<SetDoubleStrike(FALSE)>> ELSE <<>>)
            \o (IF from.underline # "None" /\ to.underline = "None"
                THEN <<SetUnderline("Off")>> ELSE <<>>)
            \o (IF from.bold /\ ~to.bold THEN <<SetEmphasized(FALSE)>> ELSE <<>>)
    IN on \o off

style_transition_commands(from, to) ==
    (IF from.bold # to.bold THEN <<SetEmphasized(to.bold)>> ELSE <<>>)
    \o (IF from.underline # to.underline
        THEN <<SetUnderline(ThicknessOf(to.underline))>> ELSE <<>>)
    \o (IF from.double_strike # to.double_strike
        THEN <<SetDoubleStrike(to.double_strike)>> ELSE <<>>)
    \o (IF from.reverse # to.reverse THEN <<SetReverse(to.reverse)>> ELSE <<>>)
    \o (IF from.upside_down # to.upside_down
        THEN <<SetUpsideDown(to.upside_down)>> ELSE <<>>)
    \o (IF from.rotated # to.rotated
        THEN <<SetRotation(IF to.rotated THEN "Clockwise90" ELSE "Off")>> ELSE <<>>)

(***************************************************************************)
(* StyledNode and its builders (src/src/style/text.rs).                    *)
(***************************************************************************)
\* StyledNode::Text(s)
text(s) == [kind |-> "Text", text |-> s]

\* StyledNode::Styled { style, children }
Styled(style, children) == [kind |-> "Styled", style |-> style, children |-> children]

styled(style, content) == Styled(style, <<text(content)>>)

with_style(node, style) == Styled(style, <<node>>)

\* A mutation of append: the style of the first node is taken for the group.
append_StyleOfFirst(node, other) ==
    Styled(IF node.kind = "Styled" THEN node.style ELSE StyleSetDefault, <<node, other>>)

append(node, other) == Styled(StyleSetDefault, <<node, other>>)

\* A mutation of underlined: the builder of double_underlined is called.
underlined_AsDouble(node) == with_style(node, with_double_underline(StyleSetDefault, TRUE))

bold(node) == with_style(node, with_bold(StyleSetDefault, TRUE))

underlined(node) == with_style(node, with_underline(StyleSetDefault, TRUE))

double_underlined(node) == with_style(node, with_double_underline(StyleSetDefault, TRUE))

reversed(node) == with_style(node, with_reverse(StyleSetDefault, TRUE))

double_strike(node) == with_style(node, with_double_strike(StyleSetDefault, TRUE))

upside_down(node) == with_style(node, with_upside_down(StyleSetDefault, TRUE))

rotated(node) == with_style(node, with_rotated(StyleSetDefault, TRUE))

(***************************************************************************)
(* The trees that are rendered.                                            *)
(***************************************************************************)
\* Every byte string of at most n bytes.
Strings(n) == UNION {[1..k -> Alphabet] : k \in 0..n}

\* Styles of the groups of the general family: the neutral style, one boolean
\* attribute, both underline levels, and a style with two attributes.
Palette ==
    {StyleSetDefault,
     with_bold(StyleSetDefault, TRUE),
     with_underline(StyleSetDefault, TRUE),
     with_double_underline(StyleSetDefault, TRUE),
     with_reverse(with_bold(StyleSetDefault, TRUE), TRUE)}

\* Texts of the leaves of the general family.
LeafTexts == {<<65>>, <<66>>}

\* Two styled texts joined by append.
SiblingTree(sa, sb) == append(styled(sa, <<65>>), styled(sb, <<66>>))

\* A styled text wrapped in a second style.
NestedTree(sa, sb) == with_style(styled(sb, <<65>>), sa)

\* The single-attribute helpers of Styleable, by name.
Helpers ==
    {"bold", "underlined", "double_underlined", "reversed", "double_strike",
     "upside_down", "rotated"}

\* The helper of that name applied to a node.
ApplyHelper(h, node) ==
    CASE h = "bold" -> bold(node)
      [] h = "underlined" -> underlined(node)
      [] h = "double_underlined" -> double_underlined(node)
      [] h = "reversed" -> reversed(node)
      [] h = "double_strike" -> double_strike(node)
      [] h = "upside_down" -> upside_down(node)
      [] h = "rotated" -> rotated(node)

(***************************************************************************)
(* The renderer (StyledNode::render and render_recursive).                 *)
(*                                                                         *)
(* built             the nodes constructed so far and not yet made the     *)
(*                   children of a group, oldest first                     *)
(* helper            the builder method called last: a Styleable helper,   *)
(*                   "append", or "none"                                   *)
(* budget            the number of nodes that may still be constructed     *)
(* tree              the node render is called on                          *)
(* pc                "build" while the tree is constructed, "walk" during  *)
(*                   the traversal, "done" once render has returned        *)
(* agenda            what is left of the recursion: the nodes still to be  *)
(*                   visited and the groups still to be left, next first   *)
(* output            the bytes emitted so far                              *)
(* style_stack       the styles of the open groups above the default       *)
(* current_effective the style the emitted commands have put in force      *)
(* line              the bytes render_line returned                        *)
(***************************************************************************)
VARIABLES built, helper, budget, tree, pc, agenda, output, style_stack,
          current_effective, line

\* What the callers of render hold.
callVars == <<line>>

renderVars ==
    <<built, helper, budget, tree, pc, agenda, output, style_stack, current_effective,
      callVars>>

(***************************************************************************)
(* The transition function applied on its own to a pair of styles.         *)
(*                                                                         *)
(* probe_from, probe_to  the pair of styles                                *)
(* probe_commands        the commands returned for it                      *)
(* probe_pc              "idle", "call" before and "return" after the call *)
(***************************************************************************)
VARIABLES probe_from, probe_to, probe_commands, probe_pc

probeVars == <<probe_from, probe_to, probe_commands, probe_pc>>

(***************************************************************************)
(* The synchronous printer (src/src/printer/sync.rs): a BufWriter over the *)
(* writer it is given, and a reader for the responses of the device.       *)
(*                                                                         *)
(* p_pc       "idle" when the printer is not in use, "ready" between two   *)
(*            calls, "query_flush" and "query_read" inside query,          *)
(*            "consumed" once into_inner has returned, "panicked" once it  *)
(*            has panicked                                                 *)
(* p_writer   the BufWriter: buf, the bytes it holds, and inner, the bytes *)
(*            the writer under it has received                             *)
(* p_log      the calls that have returned Ok, each with its argument      *)
(* p_failed   a call has returned an I/O error or panicked                 *)
(* p_last     the call that returned last                                  *)
(* p_result   what it returned: "Ok", "Io", "NoResponse" or "StatusParse", *)
(*            or "panic"                                                   *)
(* p_calls    the number of calls so far                                   *)
(* p_cmd      the command of the query in progress or just returned        *)
(* p_entry    the BufWriter as it was when that query was called           *)
(* p_reads    the number of reads of the reader so far                     *)
(* p_got      what the read of the reader returned in the last query: "Ok" *)
(*            with the bytes read, "Err", or "none" before the read        *)
(* p_parsed   the slices parse_response was called with in the last query  *)
(* p_value    the response or the error inside the result of the query     *)
(***************************************************************************)
VARIABLES p_pc, p_writer, p_log, p_failed, p_last, p_result, p_calls,
          p_cmd, p_entry, p_reads, p_got, p_parsed, p_value

printerVars ==
    <<p_pc, p_writer, p_log, p_failed, p_last, p_result, p_calls,
      p_cmd, p_entry, p_reads, p_got, p_parsed, p_value>>

\* The argument, the locals and the value of the query in progress or
\* returned last, which the next call leaves behind.
queryVars == <<p_cmd, p_entry, p_got, p_parsed, p_value>>

(***************************************************************************)
(* PrintBarcode::new on one barcode system and one slice of data           *)
(* (src/src/command/barcode.rs).                                           *)
(*                                                                         *)
(* b_pc      "idle", "call" before and "return" after the call             *)
(* b_system  the barcode system given                                      *)
(* b_data    the data given                                                *)
(* b_result  what the call returned                                        *)
(***************************************************************************)
VARIABLES b_pc, b_system, b_data, b_result

barcodeVars == <<b_pc, b_system, b_data, b_result>>

(***************************************************************************)
(* PrintQrCode::new on one slice of data, the with_ methods and encode on  *)
(* the value it returns (src/src/command/symbol.rs).                       *)
(*                                                                         *)
(* q_pc      "idle", "call" before new, "return" after it, "with" after a  *)
(*           with_ method, "encoded" after encode                          *)
(* q_data    the data given                                                *)
(* q_result  what new returned, and then what the last with_ method did    *)
(* q_bytes   what encode returned                                          *)
(***************************************************************************)
VARIABLES q_pc, q_data, q_result, q_bytes

qrVars == <<q_pc, q_data, q_result, q_bytes>>

(***************************************************************************)
(* An opened USB printer (src/src/transport/usb.rs).                       *)
(*                                                                         *)
(* u_pc       "idle", "open" once the device is opened, "split" inside     *)
(*            split after its claim, "dropping" when the printer goes out  *)
(*            of scope, "dropped" after its drop                           *)
(* u_printer  the fields handle (TRUE for Some) and claimed                *)
(* u_device   the device: interface, claimed on the device or not; kernel, *)
(*            a kernel driver attached or not; the numbers of calls of     *)
(*            claim_interface and release_interface so far                 *)
(* u_last     the method that returned last                                *)
(* u_result   what it returned                                             *)
(* u_calls    the number of calls of methods so far                        *)
(* u_split    what split returned: "Ok" for the reader and the writer, the *)
(*            error otherwise, "none" before it returns                    *)
(***************************************************************************)
VARIABLES u_pc, u_printer, u_device, u_last, u_result, u_calls, u_split

usbVars == <<u_pc, u_printer, u_device, u_last, u_result, u_calls, u_split>>

vars == <<renderVars, probeVars, printerVars, barcodeVars, qrVars, usbVars>>

\* The state of everything but the renderer, but the probe, but the printer.
notRender == <<probeVars, printerVars, barcodeVars, qrVars, usbVars>>

notProbe == <<renderVars, printerVars, barcodeVars, qrVars, usbVars>>

notPrinter == <<renderVars, probeVars, barcodeVars, qrVars, usbVars>>

notBarcode == <<renderVars, probeVars, printerVars, qrVars, usbVars>>

notQr == <<renderVars, probeVars, printerVars, barcodeVars, usbVars>>

notUsb == <<renderVars, probeVars, printerVars, barcodeVars, qrVars>>

\* No node: the value of tree before render is called.
NoNode == [kind |-> "None"]

RECURSIVE Flatten(_)
\* output.extend(cmd) for each command of a list
Flatten(cmds) == IF cmds = <<>> THEN <<>> ELSE Head(cmds) \o Flatten(Tail(cmds))

Visit(node) == [op |-> "visit", node |-> node]

\* The frame of render_recursive on a group whose children are being rendered.
Leave(node) == [op |-> "leave", node |-> node]

\* The visits of the children of a group, in order.
VisitAll(children) == [i \in 1..Len(children) |-> Visit(children[i])]

\* The renderer before render is called: the trees are two siblings and a nest
\* of two under every pair of styles, every string bare and under every
\* helper, and the trees constructed node by node over the palette.
RenderInit ==
    /\ \/ built = <<>> /\ budget = MaxNodes /\ helper = "none"
       \/ /\ budget = 0 /\ helper = "none"
          /\ \E sa, sb \in StyleSet : built = <<SiblingTree(sa, sb)>>
       \/ /\ budget = 0 /\ helper = "none"
          /\ \E sa, sb \in StyleSet : built = <<NestedTree(sa, sb)>>
       \/ /\ budget = 0
          /\ \E s \in Strings(MaxTextLen), h \in Helpers :
                built = <<ApplyHelper(h, text(s))>> /\ helper = h
       \/ /\ budget = 0 /\ helper = "none"
          /\ \E s \in Strings(MaxTextLen) : built = <<text(s)>>
    /\ tree = NoNode
    /\ pc = "build"
    /\ agenda = <<>>
    /\ output = <<>>
    /\ style_stack = <<>>
    /\ current_effective = StyleSetDefault
    /\ line = <<>>

\* BufWriter::new(writer) over an empty writer.
BufWriterNew == [buf |-> <<>>, inner |-> <<>>]

\* No read of the reader yet.
NotRead == [result |-> "none", bytes |-> <<>>]

\* No command: the value of p_cmd before query is called.
NoCommand == [kind |-> "None", n |-> 0]

NoValue == [kind |-> "None"]

\* The printer before Printer::with_reader is called.
PrinterIdle ==
    /\ p_pc = "idle"
    /\ p_writer = BufWriterNew
    /\ p_log = <<>>
    /\ p_failed = FALSE
    /\ p_last = "none"
    /\ p_result = "none"
    /\ p_calls = 0
    /\ p_cmd = NoCommand
    /\ p_entry = BufWriterNew
    /\ p_reads = 0
    /\ p_got = NotRead
    /\ p_parsed = <<>>
    /\ p_value = NoValue

\* No result: the value of a result before the call.
NoResult == [kind |-> "None"]

\* No call of PrintBarcode::new.
BarcodeIdle ==
    /\ b_pc = "idle"
    /\ b_system = "UpcA"
    /\ b_data = <<>>
    /\ b_result = NoResult

\* No call of PrintQrCode::new.
QrIdle ==
    /\ q_pc = "idle"
    /\ q_data = <<>>
    /\ q_result = NoResult
    /\ q_bytes = <<>>

\* No USB printer opened.
UsbIdle ==
    /\ u_pc = "idle"
    /\ u_printer = [handle |-> FALSE, claimed |-> FALSE]
    /\ u_device = [interface |-> FALSE, kernel |-> FALSE, claim_interface |-> 0,
                   release_interface |-> 0]
    /\ u_last = "none"
    /\ u_result = "none"
    /\ u_calls = 0
    /\ u_split = "none"

\* The probe at rest.
ProbeIdle ==
    /\ probe_from = StyleSetDefault
    /\ probe_to = StyleSetDefault
    /\ probe_commands = <<>>
    /\ probe_pc = "idle"

Init == RenderInit /\ ProbeIdle /\ PrinterIdle /\ BarcodeIdle /\ QrIdle /\ UsbIdle

\* StyledNode::text: a leaf is constructed.
BuildText ==
    /\ pc = "build"
    /\ budget > 0
    /\ \E s \in LeafTexts : built' = Append(built, text(s))
    /\ budget' = budget - 1
    /\ helper' = "none"
    /\ UNCHANGED <<tree, pc, agenda, output, style_stack, current_effective>>
    /\ UNCHANGED callVars
    /\ UNCHANGED notRender

\* StyledNode::Styled { style, children }: a group is constructed around the
\* last k nodes constructed (with_style for one node, append for two nodes
\* under the default style).
BuildStyled ==
    /\ pc = "build"
    /\ budget > 0
    /\ \E st \in Palette, k \in 0..Len(built) :
          built' = SubSeq(built, 1, Len(built) - k)
                   \o <<Styled(st, SubSeq(built, Len(built) - k + 1, Len(built)))>>
    /\ budget' = budget - 1
    /\ helper' = "none"
    /\ UNCHANGED <<tree, pc, agenda, output, style_stack, current_effective>>
    /\ UNCHANGED callVars
    /\ UNCHANGED notRender

\* StyledNode::append: the last two nodes constructed are put in sequence.
BuildAppend ==
    /\ pc = "build"
    /\ budget > 0
    /\ Len(built) >= 2
    /\ built' = SubSeq(built, 1, Len(built) - 2)
                 \o <<append(built[Len(built) - 1], built[Len(built)])>>
    /\ budget' = budget - 1
    /\ helper' = "append"
    /\ UNCHANGED <<tree, pc, agenda, output, style_stack, current_effective>>
    /\ UNCHANGED callVars
    /\ UNCHANGED notRender

\* let mut output = Vec::new()
NewOutput == <<>>

\* render, up to its call of render_recursive: on the tree just constructed,
\* or once more on the tree of the call that has returned.  The output, the
\* style stack and the current effective style are locals of render, made
\* anew at every call.
RenderStart ==
    /\ \/ pc = "build" /\ Len(built) = 1
       \/ pc = "done"
    /\ tree' = built[1]
    /\ pc' = "walk"
    /\ output' = NewOutput
    /\ style_stack' = <<StyleSetDefault>>
    /\ current_effective' = StyleSetDefault
    /\ agenda' = <<Visit(built[1])>>
    /\ UNCHANGED <<built, helper, budget, line>>
    /\ UNCHANGED notRender

\* A mutation of ExtendText: the text is put in front of the output.
ExtendText_InFront(out, content) == content \o out

\* output.extend(text.as_bytes())
ExtendText(out, content) == out \o content

\* render_recursive on a Text node.
RenderText ==
    /\ pc = "walk"
    /\ agenda # <<>>
    /\ Head(agenda).op = "visit"
    /\ Head(agenda).node.kind = "Text"
    /\ output' = ExtendText(output, Head(agenda).node.text)
    /\ agenda' = Tail(agenda)
    /\ UNCHANGED <<built, helper, budget, tree, pc, style_stack, current_effective>>
    /\ UNCHANGED callVars
    /\ UNCHANGED notRender

\* style_stack.push(style.clone())
Pushed(stack, style) == Append(stack, style)

\* A mutation of Popped: the style stays on the stack.
Popped_Kept(stack) == stack

\* style_stack.pop()
Popped(stack) == SubSeq(stack, 1, Len(stack) - 1)

\* A mutation of PushEffective: the effective style is computed before the
\* style is pushed.
PushEffective_BeforePush(stack, style) == from_stack(stack)

\* A mutation of PushEffective: the style of the group replaces the styles
\* of the groups around it.
PushEffective_TopOnly(stack, style) == from_stack(<<style>>)

\* The effective style on entering a group: the stack after the push, folded.
PushEffective(stack, style) == from_stack(Append(stack, style))

\* A mutation of PushTransition: the transition starts from the baseline.
PushTransition_FromDefault(current, new_effective) ==
    style_transition_commands(StyleSetDefault, new_effective)

\* The commands emitted on entering a group.
PushTransition(current, new_effective) ==
    style_transition_commands(current, new_effective)

\* render_recursive on a Styled node, up to the rendering of its children.
RenderStyledPush ==
    /\ pc = "walk"
    /\ agenda # <<>>
    /\ Head(agenda).op = "visit"
    /\ Head(agenda).node.kind = "Styled"
    /\ LET node == Head(agenda).node
           new_effective == PushEffective(style_stack, node.style)
       IN /\ style_stack' = Pushed(style_stack, node.style)
          /\ output' = output \o Flatten(PushTransition(current_effective, new_effective))
          /\ current_effective' = new_effective
          /\ agenda' = VisitAll(node.children) \o <<Leave(node)>> \o Tail(agenda)
    /\ UNCHANGED <<built, helper, budget, tree, pc>>
    /\ UNCHANGED callVars
    /\ UNCHANGED notRender

\* A mutation of PoppedEffective: leaving a group goes back to the baseline.
PoppedEffective_Default(stack) == StyleSetDefault

\* A mutation of PoppedEffective: the stack is folded with the style of the
\* group still on it.
PoppedEffective_BeforePop(stack) == from_stack(stack)

\* The effective style on leaving a group: the stack after the pop, folded.
PoppedEffective(stack) == from_stack(SubSeq(stack, 1, Len(stack) - 1))

\* A mutation of PopTransition: nothing is emitted on leaving a group.
PopTransition_Nothing(current, popped_effective) == <<>>

\* The commands emitted on leaving a group.
PopTransition(current, popped_effective) ==
    style_transition_commands(current, popped_effective)

\* render_recursive on a Styled node, once its children are rendered.
RenderStyledPop ==
    /\ pc = "walk"
    /\ agenda # <<>>
    /\ Head(agenda).op = "leave"
    /\ LET popped_effective == PoppedEffective(style_stack)
       IN /\ style_stack' = Popped(style_stack)
          /\ output' = output \o Flatten(PopTransition(current_effective, popped_effective))
          /\ current_effective' = popped_effective
          /\ agenda' = Tail(agenda)
    /\ UNCHANGED <<built, helper, budget, tree, pc>>
    /\ UNCHANGED callVars
    /\ UNCHANGED notRender

\* A mutation of ResetCommands: every attribute is switched off, whatever
\* the effective style.
ResetCommands_Always(current) ==
    style_transition_commands(
        [bold |-> TRUE, underline |-> "Double", double_strike |-> TRUE,
         reverse |-> TRUE, upside_down |-> TRUE, rotated |-> TRUE],
        StyleSetDefault)

\* The commands of the closing reset of render.
ResetCommands(current) == style_transition_commands(current, StyleSetDefault)

\* render, after render_recursive has returned.
RenderReset ==
    /\ pc = "walk"
    /\ agenda = <<>>
    /\ output' = output \o Flatten(ResetCommands(current_effective))
    /\ pc' = "done"
    /\ UNCHANGED <<built, helper, budget, tree, agenda, style_stack, current_effective>>
    /\ UNCHANGED callVars
    /\ UNCHANGED notRender

\* LineFeed.encode()
LineFeed == <<LF>>

\* A mutation of LineOf: the line terminator comes first.
LineOf_TerminatorFirst(rendered) == LineFeed \o rendered

\* The bytes of render_line, from the bytes render returned.
LineOf(rendered) == rendered \o LineFeed

\* render_line, after its call of render has returned.
RenderLine ==
    /\ pc = "done"
    /\ line' = LineOf(output)
    /\ pc' = "line"
    /\ UNCHANGED <<built, helper, budget, tree, agenda, output, style_stack,
                   current_effective>>
    /\ UNCHANGED notRender

Next ==
    \/ BuildText
    \/ BuildStyled
    \/ BuildAppend
    \/ RenderStart
    \/ RenderText
    \/ RenderStyledPush
    \/ RenderStyledPop
    \/ RenderReset
    \/ RenderLine

Spec == Init /\ [][Next]_vars

(***************************************************************************)
(* render and render_line as the callers of StyledNode see them: the       *)
(* traversal above, from the call to the bytes returned.                   *)
(***************************************************************************)
RECURSIVE render_recursive(_, _), render_children(_, _)
\* render_recursive on node, from the output, style stack and current
\* effective style of walk to those it leaves.
render_recursive(node, walk) ==
    IF node.kind = "Text"
    THEN [walk EXCEPT !.output = ExtendText(walk.output, node.text)]
    ELSE LET new_effective == PushEffective(walk.style_stack, node.style)
             entered ==
                 [output |-> walk.output
                     \o Flatten(PushTransition(walk.current_effective, new_effective)),
                  style_stack |-> Pushed(walk.style_stack, node.style),
                  current_effective |-> new_effective]
             inside == render_children(node.children, entered)
             popped_effective == PoppedEffective(inside.style_stack)
         IN [output |-> inside.output
                \o Flatten(PopTransition(inside.current_effective, popped_effective)),
             style_stack |-> Popped(inside.style_stack),
             current_effective |-> popped_effective]

\* for child in children { child.render_recursive(...) }
render_children(children, walk) ==
    IF children = <<>> THEN walk
    ELSE render_children(Tail(children), render_recursive(Head(children), walk))

\* node.render()
render(node) ==
    LET walked == render_recursive(node,
                      [output |-> NewOutput,
                       style_stack |-> <<StyleSetDefault>>,
                       current_effective |-> StyleSetDefault])
    IN walked.output \o Flatten(ResetCommands(walked.current_effective))

\* node.render_line()
render_line(node) == LineOf(render(node))

(***************************************************************************)
(* style_transition_commands on every pair of styles.                      *)
(***************************************************************************)
\* The renderer at rest.
RenderIdle ==
    /\ built = <<>>
    /\ helper = "none"
    /\ budget = 0
    /\ tree = NoNode
    /\ pc = "idle"
    /\ agenda = <<>>
    /\ output = <<>>
    /\ style_stack = <<>>
    /\ current_effective = StyleSetDefault
    /\ line = <<>>

InitTransition ==
    /\ RenderIdle
    /\ PrinterIdle
    /\ BarcodeIdle
    /\ QrIdle
    /\ UsbIdle
    /\ probe_from \in StyleSet
    /\ probe_to \in StyleSet
    /\ probe_commands = <<>>
    /\ probe_pc = "call"

\* style_transition_commands(from, to)
Transition ==
    /\ probe_pc = "call"
    /\ probe_commands' = style_transition_commands(probe_from, probe_to)
    /\ probe_pc' = "return"
    /\ UNCHANGED <<probe_from, probe_to>>
    /\ UNCHANGED notProbe

NextTransition == Transition

SpecTransition == InitTransition /\ [][NextTransition]_vars

(***************************************************************************)
(* The calls of the printer.                                               *)
(***************************************************************************)
\* Capacity of the BufWriter; the standard library's is 8192 bytes.
BufCapacity == 8
\* Largest number of calls on one printer.
MaxCalls == 3

Min(a, b) == IF a < b THEN a ELSE b

\* A write of the writer under the BufWriter either takes every byte, or
\* fails once k bytes are taken: at "flush_buf" when the buffer is written
\* out, at "direct" when bytes too long for the buffer are written past it,
\* at "flush" when the writer itself is flushed.
NoFault == [at |-> "none", k |-> 0]

Faults ==
    {NoFault, [at |-> "flush", k |-> 0]} \cup [at : {"flush_buf", "direct"}, k : {0, 1}]

\* BufWriter::flush_buf: the buffer is written out.
BufWriter_flush_buf(w, fault) ==
    IF w.buf = <<>> THEN [w |-> w, ok |-> TRUE]
    ELSE IF fault.at = "flush_buf"
    THEN LET k == Min(fault.k, Len(w.buf) - 1)
         IN [w |-> [buf |-> SubSeq(w.buf, k + 1, Len(w.buf)),
                    inner |-> w.inner \o SubSeq(w.buf, 1, k)],
             ok |-> FALSE]
    ELSE [w |-> [buf |-> <<>>, inner |-> w.inner \o w.buf], ok |-> TRUE]

\* BufWriter::write_all: bytes shorter than the room left are buffered; else
\* the buffer is written out first if they exceed the room, and they go
\* past the buffer if they are as long as its capacity.
BufWriter_write_all(w, bytes, fault) ==
    IF Len(bytes) < BufCapacity - Len(w.buf)
    THEN [w |-> [w EXCEPT !.buf = @ \o bytes], ok |-> TRUE]
    ELSE LET flushed == IF Len(bytes) > BufCapacity - Len(w.buf)
                        THEN BufWriter_flush_buf(w, fault)
                        ELSE [w |-> w, ok |-> TRUE]
         IN IF ~flushed.ok THEN flushed
            ELSE IF Len(bytes) >= BufCapacity
            THEN IF fault.at = "direct"
                 THEN [w |-> [flushed.w EXCEPT
                                 !.inner = @ \o SubSeq(bytes, 1, Min(fault.k, Len(bytes) - 1))],
                       ok |-> FALSE]
                 ELSE [w |-> [flushed.w EXCEPT !.inner = @ \o bytes], ok |-> TRUE]
            ELSE [w |-> [flushed.w EXCEPT !.buf = @ \o bytes], ok |-> TRUE]

\* BufWriter::flush: the buffer is written out and the writer flushed.
BufWriter_flush(w, fault) ==
    LET flushed == BufWriter_flush_buf(w, fault)
    IN IF ~flushed.ok THEN flushed
       ELSE IF fault.at = "flush" THEN [w |-> flushed.w, ok |-> FALSE]
       ELSE flushed

\* Initialize.encode(): ESC @
Initialize == <<ESC, 64>>

\* PageBuilder::build() of a page of the given commands: ESC L, the
\* commands, FF.
PageBuild(commands) == <<ESC, 76>> \o commands \o <<FF>>

\* ExitPageMode.encode(): ESC S
ExitPageMode == <<ESC, 83>>

\* PageBuilder::build_and_exit() of a page of the given commands: the bytes
\* of build(), then the return to standard mode.
PageBuildAndExit(commands) == PageBuild(commands) \o ExitPageMode

\* The commands given to send, encoded.
SendCommands == {Initialize, SetEmphasized(TRUE)}

\* The slices given to send_raw.
RawSlices == {<<>>, <<66, 65>>}

\* The nodes given to print.
PrintNodes == {text(<<65>>), bold(text(<<65, 66>>))}

\* The nodes given to println.
LineNodes == {bold(text(<<65, 66>>))}

\* The pages given to print_page, as the commands between ESC L and FF: an
\* empty page.
Pages == {<<>>}

\* The pages given to print_page_and_exit: a page with the direction set
\* (ESC T 1).
PagesToExit == {<<ESC, 84, 1>>}

\* Printer::with_reader(writer, reader)
InitPrinter ==
    /\ RenderIdle
    /\ ProbeIdle
    /\ BarcodeIdle
    /\ QrIdle
    /\ UsbIdle
    /\ p_pc = "ready"
    /\ p_writer = BufWriterNew
    /\ p_log = <<>>
    /\ p_failed = FALSE
    /\ p_last = "none"
    /\ p_result = "none"
    /\ p_calls = 0
    /\ p_cmd = NoCommand
    /\ p_entry = BufWriterNew
    /\ p_reads = 0
    /\ p_got = NotRead
    /\ p_parsed = <<>>
    /\ p_value = NoValue

\* Nothing is kept of the query that returned last.
QueryLeft ==
    /\ p_cmd' = NoCommand
    /\ p_entry' = BufWriterNew
    /\ p_got' = NotRead
    /\ p_parsed' = <<>>
    /\ p_value' = NoValue

\* self.writer.write_all(bytes)?; Ok(self) in the call of that name on that
\* argument.
WriteCall(name, arg, bytes, fault) ==
    LET wrote == BufWriter_write_all(p_writer, bytes, fault)
    IN /\ p_pc = "ready"
       /\ p_calls < MaxCalls
       /\ p_calls' = p_calls + 1
       /\ p_writer' = wrote.w
       /\ p_last' = name
       /\ p_result' = IF wrote.ok THEN "Ok" ELSE "Io"
       /\ p_failed' = (p_failed \/ ~wrote.ok)
       /\ p_log' = IF wrote.ok THEN Append(p_log, [call |-> name, arg |-> arg]) ELSE p_log
       /\ QueryLeft
       /\ UNCHANGED <<p_pc, p_reads>>
       /\ UNCHANGED notPrinter

\* Printer::send
Send == \E cmd \in SendCommands, fault \in Faults : WriteCall("send", cmd, cmd, fault)

\* Printer::send_raw
SendRaw == \E bytes \in RawSlices, fault \in Faults : WriteCall("send_raw", bytes, bytes, fault)

\* Printer::print
PrintNode ==
    \E node \in PrintNodes, fault \in Faults : WriteCall("print", node, render(node), fault)

\* A mutation of PrintlnBytes: the line is written without its terminator.
PrintlnBytes_NoLineFeed(node) == render(node)

\* The bytes println writes for a node.
PrintlnBytes(node) == render_line(node)

\* Printer::println
Println ==
    \E node \in LineNodes, fault \in Faults :
        WriteCall("println", node, PrintlnBytes(node), fault)

\* Printer::print_page
PrintPage ==
    \E page \in Pages, fault \in Faults : WriteCall("print_page", page, PageBuild(page), fault)

\* Printer::print_page_and_exit
PrintPageAndExit ==
    \E page \in PagesToExit, fault \in Faults :
        WriteCall("print_page_and_exit", page, PageBuildAndExit(page), fault)

\* Printer::flush
Flush ==
    \E fault \in Faults :
        LET flushed == BufWriter_flush(p_writer, fault)
        IN /\ p_pc = "ready"
           /\ p_calls < MaxCalls
           /\ p_calls' = p_calls + 1
           /\ p_writer' = flushed.w
           /\ p_last' = "flush"
           /\ p_result' = IF flushed.ok THEN "Ok" ELSE "Io"
           /\ p_failed' = (p_failed \/ ~flushed.ok)
           /\ QueryLeft
           /\ UNCHANGED <<p_pc, p_log, p_reads>>
           /\ UNCHANGED notPrinter

\* Printer::into_inner.  BufWriter::into_inner writes the buffer out and
\* gives the writer back, without a flush of the writer; the printer is
\* consumed.  When the buffer cannot be written out into_inner panics, and
\* the BufWriter, dropped with the error that holds it, writes its buffer
\* out once more, which may fail again; what is then left is lost.
IntoInner ==
    \E fault \in Faults, again \in Faults :
        LET flushed == BufWriter_flush_buf(p_writer, fault)
            dropped == BufWriter_flush_buf(flushed.w, again)
        IN /\ p_pc = "ready"
           /\ p_calls < MaxCalls
           /\ p_calls' = p_calls + 1
           /\ p_last' = "into_inner"
           /\ IF flushed.ok
              THEN /\ p_pc' = "consumed"
                   /\ p_result' = "Ok"
                   /\ p_writer' = flushed.w
                   /\ UNCHANGED p_failed
              ELSE /\ p_pc' = "panicked"
                   /\ p_result' = "panic"
                   /\ p_writer' = [buf |-> <<>>, inner |-> dropped.w.inner]
                   /\ p_failed' = TRUE
           /\ QueryLeft
           /\ UNCHANGED <<p_log, p_reads>>
           /\ UNCHANGED notPrinter

RECURSIVE BitAnd(_, _)
\* a & b on bytes
BitAnd(a, b) ==
    IF a = 0 \/ b = 0 THEN 0
    ELSE (IF a % 2 = 1 /\ b % 2 = 1 THEN 1 ELSE 0) + 2 * BitAnd(a \div 2, b \div 2)

\* PrinterStatus::parse
PrinterStatusParse(byte) ==
    [kind |-> "Printer",
     drawer_open |-> BitAnd(byte, 4) # 0,
     online |-> BitAnd(byte, 8) = 0,
     feed_button_pressed |-> BitAnd(byte, 32) # 0,
     paper_present |-> BitAnd(byte, 96) # 96]

\* OfflineStatus::parse
OfflineStatusParse(byte) ==
    [kind |-> "Offline",
     cover_open |-> BitAnd(byte, 4) # 0,
     paper_feeding |-> BitAnd(byte, 8) # 0,
     recoverable_error |-> BitAnd(byte, 32) # 0,
     cutter_error |-> BitAnd(byte, 64) # 0]

\* ErrorStatus::parse
ErrorStatusParse(byte) ==
    [kind |-> "Error",
     recoverable_error |-> BitAnd(byte, 4) # 0,
     cutter_error |-> BitAnd(byte, 8) # 0,
     unrecoverable_error |-> BitAnd(byte, 32) # 0]

\* PaperRollStatus::parse
PaperRollStatusParse(byte) ==
    [kind |-> "PaperRoll",
     paper_near_end |-> BitAnd(byte, 12) # 0,
     paper_end |-> BitAnd(byte, 96) # 0]

\* The query commands: TransmitStatus of each StatusType (Printer = 1,
\* Offline = 2, Error = 3, PaperRoll = 4), and a command of another
\* implementor of QueryCommand.
QueryCommands ==
    {[kind |-> "TransmitStatus", n |-> t] : t \in 1..4} \cup {[kind |-> "Other", n |-> 0]}

\* cmd.encode(): DLE EOT n for TransmitStatus; the bytes of the other
\* implementor are its own (GS I 1 here).
QueryEncode(cmd) ==
    IF cmd.kind = "TransmitStatus" THEN <<DLE, 4, cmd.n>> ELSE <<GS, 73, 1>>

\* cmd.parse_response(bytes).  TransmitStatus reads the first byte by its
\* status type and fails on the empty slice only.  The other implementor
\* fails on the empty slice and on the slices it finds malformed, which
\* the verdict stands for.
parse_response(cmd, bytes, verdict) ==
    IF bytes = <<>> THEN [ok |-> FALSE, value |-> [kind |-> "EmptyResponse"]]
    ELSE IF cmd.kind = "TransmitStatus"
    THEN [ok |-> TRUE,
          value |-> CASE cmd.n = 1 -> PrinterStatusParse(bytes[1])
                      [] cmd.n = 2 -> OfflineStatusParse(bytes[1])
                      [] cmd.n = 3 -> ErrorStatusParse(bytes[1])
                      [] cmd.n = 4 -> PaperRollStatusParse(bytes[1])]
    ELSE IF verdict = "malformed"
    THEN [ok |-> FALSE, value |-> [kind |-> "InvalidStatus", byte |-> bytes[1]]]
    ELSE [ok |-> TRUE, value |-> [kind |-> "Other", byte |-> bytes[1]]]

\* Length of the buffer query reads into.
ReadBufferLen == 64

\* Longest response the device sends at once.
MaxResponseLen == 65

\* What the device has sent when the reader is read: nothing, one status
\* byte, two, and more bytes than the buffer holds.
ReaderData ==
    {<<>>, <<12>>, <<96, 4>>, [i \in 1..MaxResponseLen |-> 18]}

\* Printer::query, up to its flush: the command is written.
QueryWrite ==
    \E cmd \in QueryCommands, fault \in Faults :
        LET wrote == BufWriter_write_all(p_writer, QueryEncode(cmd), fault)
        IN /\ p_pc = "ready"
           /\ p_calls < MaxCalls
           /\ p_calls' = p_calls + 1
           /\ p_cmd' = cmd
           /\ p_entry' = p_writer
           /\ p_writer' = wrote.w
           /\ p_last' = "query"
           /\ p_value' = NoValue
           /\ p_got' = NotRead
           /\ p_parsed' = <<>>
           /\ IF wrote.ok
              THEN /\ p_pc' = "query_flush"
                   /\ p_result' = "none"
                   /\ p_log' = Append(p_log, [call |-> "query", arg |-> QueryEncode(cmd)])
                   /\ UNCHANGED p_failed
              ELSE /\ p_pc' = "ready"
                   /\ p_result' = "Io"
                   /\ p_failed' = TRUE
                   /\ UNCHANGED p_log
           /\ UNCHANGED p_reads
           /\ UNCHANGED notPrinter

\* A mutation of QueryFlushed: the reader is read with the buffer as it is.
QueryFlushed_NoFlush(w, fault) == [w |-> w, ok |-> TRUE]

\* self.writer.flush()? of query
QueryFlushed(w, fault) == BufWriter_flush(w, fault)

\* Printer::query, from its flush up to the read.
QueryFlush ==
    \E fault \in Faults :
        LET flushed == QueryFlushed(p_writer, fault)
        IN /\ p_pc = "query_flush"
           /\ p_writer' = flushed.w
           /\ IF flushed.ok
              THEN /\ p_pc' = "query_read"
                   /\ UNCHANGED <<p_result, p_failed>>
              ELSE /\ p_pc' = "ready"
                   /\ p_result' = "Io"
                   /\ p_failed' = TRUE
           /\ UNCHANGED <<p_log, p_last, p_calls, p_cmd, p_entry, p_reads, p_got,
                          p_parsed, p_value>>
           /\ UNCHANGED notPrinter

\* A mutation of QueryReturn: the response is parsed without the test of
\* the number of bytes read.
QueryReturn_NoZeroTest(cmd, got, verdict) ==
    LET parsed == parse_response(cmd, got, verdict)
    IN [result |-> IF parsed.ok THEN "Ok" ELSE "StatusParse",
        value |-> parsed.value,
        parsed |-> <<got>>]

\* What query returns once the reader has returned the bytes got, and the
\* slice it has called parse_response with, if any.
QueryReturn(cmd, got, verdict) ==
    IF Len(got) = 0
    THEN [result |-> "NoResponse", value |-> NoValue, parsed |-> <<>>]
    ELSE LET parsed == parse_response(cmd, got, verdict)
         IN [result |-> IF parsed.ok THEN "Ok" ELSE "StatusParse",
             value |-> parsed.value,
             parsed |-> <<got>>]

\* Printer::query, from the read of the reader to its return.  The read
\* fails, or fills the buffer with what the device has sent, up to the
\* length of the buffer.
QueryRead ==
    /\ p_pc = "query_read"
    /\ p_reads' = p_reads + 1
    /\ p_pc' = "ready"
    /\ \/ /\ p_result' = "Io"
          /\ p_failed' = TRUE
          /\ p_got' = [result |-> "Err", bytes |-> <<>>]
          /\ UNCHANGED <<p_parsed, p_value>>
       \/ \E data \in ReaderData, verdict \in {"well-formed", "malformed"} :
             LET got == SubSeq(data, 1, Min(Len(data), ReadBufferLen))
                 returned == QueryReturn(p_cmd, got, verdict)
             IN /\ p_result' = returned.result
                /\ p_value' = returned.value
                /\ p_parsed' = returned.parsed
                /\ p_got' = [result |-> "Ok", bytes |-> got]
                /\ UNCHANGED p_failed
    /\ UNCHANGED <<p_writer, p_log, p_last, p_calls, p_cmd, p_entry>>
    /\ UNCHANGED notPrinter

NextPrinter ==
    \/ Send
    \/ SendRaw
    \/ PrintNode
    \/ Println
    \/ PrintPage
    \/ PrintPageAndExit
    \/ Flush
    \/ IntoInner
    \/ QueryWrite
    \/ QueryFlush
    \/ QueryRead

SpecPrinter == InitPrinter /\ [][NextPrinter]_vars

(***************************************************************************)
(* Barcodes.                                                               *)
(***************************************************************************)
\* Longest data given to PrintBarcode::new.
MaxBarcodeLen == 256

BarcodeSystem ==
    {"UpcA", "UpcE", "Jan13", "Jan8", "Code39", "Itf", "Codabar", "Code93", "Code128"}

\* (min_len, max_len, name) of validate
BarcodeLimits(system) ==
    CASE system = "UpcA" -> [min_len |-> 11, max_len |-> 12, name |-> "UPC-A"]
      [] system = "UpcE" -> [min_len |-> 11, max_len |-> 12, name |-> "UPC-E"]
      [] system = "Jan13" -> [min_len |-> 12, max_len |-> 13, name |-> "JAN-13"]
      [] system = "Jan8" -> [min_len |-> 7, max_len |-> 8, name |-> "JAN-8"]
      [] system = "Code39" -> [min_len |-> 1, max_len |-> 255, name |-> "CODE39"]
      [] system = "Itf" -> [min_len |-> 2, max_len |-> 255, name |-> "ITF"]
      [] system = "Codabar" -> [min_len |-> 1, max_len |-> 255, name |-> "CODABAR"]
      [] system = "Code93" -> [min_len |-> 1, max_len |-> 255, name |-> "CODE93"]
      [] system = "Code128" -> [min_len |-> 2, max_len |-> 255, name |-> "CODE128"]

\* u8::is_ascii_digit, u8::is_ascii_uppercase
is_ascii_digit(byte) == byte >= 48 /\ byte <= 57

is_ascii_uppercase(byte) == byte >= 65 /\ byte <= 90

\* The test of one byte in validate.
ValidByte(system, byte) ==
    CASE system \in {"UpcA", "UpcE", "Jan13", "Jan8", "Itf"} -> is_ascii_digit(byte)
      [] system = "Code39" ->
            \/ is_ascii_digit(byte)
            \/ is_ascii_uppercase(byte)
            \/ byte \in {32, 36, 37, 42, 43, 45, 46, 47}
      [] system = "Codabar" ->
            \/ is_ascii_digit(byte)
            \/ (byte >= 65 /\ byte <= 68)
            \/ byte \in {36, 43, 45, 46, 47, 58}
      [] system \in {"Code93", "Code128"} -> byte <= 127

\* The indices, from 0, of the bytes that fail the test.
InvalidAt(system, data) == {i \in 0..(Len(data) - 1) : ~ValidByte(system, data[i + 1])}

SetMin(S) == CHOOSE x \in S : \A y \in S : x <= y

\* The width of the character a byte begins (utf8_char_width): 0 for a byte
\* that begins none.
utf8_char_width(b) ==
    IF b < 128 THEN 1
    ELSE IF b >= 194 /\ b <= 223 THEN 2
    ELSE IF b >= 224 /\ b <= 239 THEN 3
    ELSE IF b >= 240 /\ b <= 244 THEN 4
    ELSE 0

\* A continuation byte, 10xxxxxx.
IsContinuation(b) == b >= 128 /\ b <= 191

\* The second byte c is one that may follow the lead byte b: no overlong
\* form, no surrogate, nothing above U+10FFFF.
SecondByteFollows(b, c) ==
    CASE b = 224 -> c >= 160 /\ c <= 191
      [] b = 237 -> c >= 128 /\ c <= 159
      [] b = 240 -> c >= 144 /\ c <= 191
      [] b = 244 -> c >= 128 /\ c <= 143
      [] OTHER -> IsContinuation(c)

\* Utf8Chunks::next at index i of data: the length of the character that
\* begins there, or of the longest beginning of a character that does, and
\* whether it is a whole character.  A byte past the end reads as 0.
Utf8Chunk(data, i) ==
    LET at(k) == IF k <= Len(data) THEN data[k] ELSE 0
        width == utf8_char_width(at(i))
    IN IF width = 1 THEN [len |-> 1, valid |-> TRUE]
       ELSE IF width = 0 THEN [len |-> 1, valid |-> FALSE]
       ELSE IF ~SecondByteFollows(at(i), at(i + 1)) THEN [len |-> 1, valid |-> FALSE]
       ELSE IF width = 2 THEN [len |-> 2, valid |-> TRUE]
       ELSE IF ~IsContinuation(at(i + 2)) THEN [len |-> 2, valid |-> FALSE]
       ELSE IF width = 3 THEN [len |-> 3, valid |-> TRUE]
       ELSE IF ~IsContinuation(at(i + 3)) THEN [len |-> 3, valid |-> FALSE]
       ELSE [len |-> 4, valid |-> TRUE]

\* The index at which the chunk holding index i of data begins.  A byte that
\* is no continuation byte begins a chunk; a continuation byte belongs to
\* the chunk of the nearest such byte before it if that chunk reaches it,
\* and stands alone otherwise.
ChunkStart(data, i) ==
    IF ~IsContinuation(data[i]) THEN i
    ELSE LET before == {j \in (i - 3)..(i - 1) :
                           /\ j >= 1
                           /\ ~IsContinuation(data[j])
                           /\ \A k \in (j + 1)..(i - 1) : IsContinuation(data[k])
                           /\ j + Utf8Chunk(data, j).len > i}
         IN IF before = {} THEN i ELSE CHOOSE j \in before : TRUE

\* String::from_utf8_lossy(data), as the bytes of the string: the whole
\* characters are kept, and every other chunk becomes one U+FFFD, the bytes
\* EF BF BD.
from_utf8_lossy(data) ==
    LET n == Len(data)
        \* the bytes each byte of data gives: itself in a whole character,
        \* U+FFFD at the head of another chunk, nothing behind that head
        gives == [i \in 1..n |->
                    LET first == ChunkStart(data, i)
                    IN IF Utf8Chunk(data, first).valid THEN 1
                       ELSE IF first = i THEN 3 ELSE 0] \o <<>>
        \* the bytes the bytes of data before index i give
        before == [i \in 1..n |->
                     Cardinality({k \in 1..(i - 1) : gives[k] = 1})
                       + 3 * Cardinality({k \in 1..(i - 1) : gives[k] = 3})] \o <<>>
        total == IF n = 0 THEN 0 ELSE before[n] + gives[n]
    IN [j \in 1..total |->
           LET i == CHOOSE k \in 1..n : before[k] < j /\ j <= before[k] + gives[k]
           IN IF gives[i] = 1 THEN data[i] ELSE <<239, 191, 189>>[j - before[i]]] \o <<>>

\* A mutation of ValidateContent: the bytes are tested before the parity.
ValidateContent_BytesFirst(system, data) ==
    IF InvalidAt(system, data) # {}
    THEN [kind |-> "InvalidCharacter", data |-> from_utf8_lossy(data),
          span |-> <<SetMin(InvalidAt(system, data)), 1>>,
          system |-> BarcodeLimits(system).name]
    ELSE IF system = "Itf" /\ Len(data) % 2 # 0
    THEN [kind |-> "ItfRequiresEvenLength", actual |-> Len(data)]
    ELSE [kind |-> "Ok"]

\* The tests of validate after the test of the length: the parity for ITF,
\* then the bytes in order, the first invalid one reported.
ValidateContent(system, data) ==
    IF system = "Itf" /\ Len(data) % 2 # 0
    THEN [kind |-> "ItfRequiresEvenLength", actual |-> Len(data)]
    ELSE IF InvalidAt(system, data) # {}
    THEN [kind |-> "InvalidCharacter", data |-> from_utf8_lossy(data),
          span |-> <<SetMin(InvalidAt(system, data)), 1>>,
          system |-> BarcodeLimits(system).name]
    ELSE [kind |-> "Ok"]

\* A mutation of validate: the test of the length has no upper limit.
validate_NoMaximum(system, data) ==
    LET limits == BarcodeLimits(system)
    IN IF Len(data) < limits.min_len
       THEN [kind |-> "InvalidLength", system |-> limits.name, actual |-> Len(data),
             min |-> limits.min_len, max |-> limits.max_len]
       ELSE ValidateContent(system, data)

\* PrintBarcode::validate
validate(system, data) ==
    LET limits == BarcodeLimits(system)
    IN IF Len(data) < limits.min_len \/ Len(data) > limits.max_len
       THEN [kind |-> "InvalidLength", system |-> limits.name, actual |-> Len(data),
             min |-> limits.min_len, max |-> limits.max_len]
       ELSE ValidateContent(system, data)

\* PrintBarcode::new
PrintBarcode_new(system, data) ==
    LET validated == validate(system, data)
    IN IF validated.kind # "Ok" THEN validated
       ELSE [kind |-> "Ok", system |-> system, data |-> data]

\* The lengths of the data given: around the limits of every system.
BarcodeLengths == {0, 1, 2, 3, 4, 6, 7, 8, 9, 10, 11, 12, 13, 14, 254, 255, MaxBarcodeLen}

\* The bytes the data given is made of: '1', '9', 'A', 'D', 'E', 'Z', 'a',
\* ' ', '$', '%', '*', ':', '/', the control byte 0, 127, 128 and 255.
BarcodeBytes == {49, 57, 65, 68, 69, 90, 97, 32, 36, 37, 42, 58, 47, 0, 127, 128, 255}

\* Characters of several bytes and beginnings of such: U+00E9, U+20AC, U+20AC
\* cut after two bytes, U+1F600, and the surrogate U+D800 as three bytes.
BarcodeCharacters ==
    {<<195, 169>>, <<226, 130, 172>>, <<226, 130>>, <<240, 159, 152, 128>>, <<237, 160, 128>>}

\* PrintBarcode::new is called on data of one byte repeated, or of that
\* byte with another byte at one place, or followed by a character of
\* several bytes.
InitBarcode ==
    /\ RenderIdle
    /\ ProbeIdle
    /\ PrinterIdle
    /\ QrIdle
    /\ UsbIdle
    /\ b_pc = "call"
    /\ b_system \in BarcodeSystem
    /\ \E n \in BarcodeLengths, fill \in {49, 65, 36} :
          \/ b_data = [i \in 1..n |-> fill]
          \/ \E place \in {1, n}, other \in BarcodeBytes :
                /\ n > 0
                /\ b_data = [i \in 1..n |-> IF i = place THEN other ELSE fill]
          \/ \E chars \in BarcodeCharacters :
                /\ n + Len(chars) <= MaxBarcodeLen
                /\ b_data = [i \in 1..n |-> fill] \o chars
    /\ b_result = NoResult

\* PrintBarcode::new(system, data)
NewBarcode ==
    /\ b_pc = "call"
    /\ b_result' = PrintBarcode_new(b_system, b_data)
    /\ b_pc' = "return"
    /\ UNCHANGED <<b_system, b_data>>
    /\ UNCHANGED notBarcode

NextBarcode == NewBarcode

SpecBarcode == InitBarcode /\ [][NextBarcode]_vars

(***************************************************************************)
(* QR codes.                                                               *)
(***************************************************************************)
\* Longest data PrintQrCode::new takes.
MaxQrData == 7089

\* Longest data given to PrintQrCode::new.
MaxQrLen == 7091

\* The values of the enums as u8.
QrModel == [Model1 |-> 49, Model2 |-> 50]

QrErrorCorrection == [L |-> 48, M |-> 49, Q |-> 50, H |-> 51]

QrModuleSize ==
    [Size1 |-> 1, Size2 |-> 2, Size3 |-> 3, Size4 |-> 4, Size5 |-> 5, Size6 |-> 6,
     Size7 |-> 7, Size8 |-> 8]

\* PrintQrCode::new
PrintQrCode_new(data) ==
    IF data = <<>> THEN [kind |-> "EmptyData"]
    ELSE IF Len(data) > MaxQrData THEN [kind |-> "DataTooLong", len |-> Len(data)]
    ELSE [kind |-> "Ok", model |-> "Model2", module_size |-> "Size3",
          error_correction |-> "L", data |-> data]

\* A mutation of QrStoreHeader: the length is cut to its low byte.
QrStoreHeader_LowByteOnly(data_len) ==
    <<GS, 40, 107, BitAnd(data_len, 255), 0, 49, 80, 48>>

\* The header of function 180, store data: GS ( k pL pH 49 80 48.
QrStoreHeader(data_len) ==
    LET pl == BitAnd(data_len, 255)
        ph == BitAnd(data_len \div 256, 255)
    IN <<GS, 40, 107, pl, ph, 49, 80, 48>>

\* PrintQrCode::encode
PrintQrCode_encode(self) ==
    <<GS, 40, 107, 4, 0, 49, 65, QrModel[self.model], 0>>
    \o <<GS, 40, 107, 3, 0, 49, 67, QrModuleSize[self.module_size]>>
    \o <<GS, 40, 107, 3, 0, 49, 69, QrErrorCorrection[self.error_correction]>>
    \o QrStoreHeader(Len(self.data) + 3)
    \o self.data
    \o <<GS, 40, 107, 3, 0, 49, 81, 48>>

\* The lengths of the data given: the shortest, those around a length plus 3
\* of one byte and of two, and those around the longest taken.
QrLengths ==
    (0..12) \cup (250..260) \cup (506..516) \cup ((MaxQrData - 2)..MaxQrLen)

\* PrintQrCode::new is called on data of one byte repeated.
InitQr ==
    /\ RenderIdle
    /\ ProbeIdle
    /\ PrinterIdle
    /\ BarcodeIdle
    /\ UsbIdle
    /\ q_pc = "call"
    /\ \E n \in QrLengths, fill \in {0, 72, 255} : q_data = [i \in 1..n |-> fill]
    /\ q_result = NoResult
    /\ q_bytes = <<>>

\* PrintQrCode::new(data)
NewQrCode ==
    /\ q_pc = "call"
    /\ q_result' = PrintQrCode_new(q_data)
    /\ q_pc' = "return"
    /\ UNCHANGED <<q_data, q_bytes>>
    /\ UNCHANGED notQr

\* A call of a with_ method on the value new returned, or on the value an
\* earlier such call returned: the value with the field set.
WithField(value) ==
    /\ q_pc \in {"return", "with"}
    /\ q_result.kind = "Ok"
    /\ q_result' = value
    /\ q_pc' = "with"
    /\ UNCHANGED <<q_data, q_bytes>>
    /\ UNCHANGED notQr

\* PrintQrCode::with_model
WithModel ==
    \E model \in DOMAIN QrModel : WithField([q_result EXCEPT !.model = model])

\* PrintQrCode::with_module_size
WithModuleSize ==
    \E size \in DOMAIN QrModuleSize : WithField([q_result EXCEPT !.module_size = size])

\* PrintQrCode::with_error_correction
WithErrorCorrection ==
    \E level \in DOMAIN QrErrorCorrection :
        WithField([q_result EXCEPT !.error_correction = level])

\* encode on the value new or a with_ method returned
EncodeQrCode ==
    /\ q_pc \in {"return", "with"}
    /\ q_result.kind = "Ok"
    /\ q_bytes' = PrintQrCode_encode(q_result)
    /\ q_pc' = "encoded"
    /\ UNCHANGED <<q_data, q_result>>
    /\ UNCHANGED notQr

NextQr ==
    \/ NewQrCode
    \/ WithModel
    \/ WithModuleSize
    \/ WithErrorCorrection
    \/ EncodeQrCode

SpecQr == InitQr /\ [][NextQr]_vars

(***************************************************************************)
(* The USB transport.                                                      *)
(***************************************************************************)
\* Largest number of calls of claim and release on one printer.
MaxUsbCalls == 5

\* The call of the handle that fails in a call of claim or release, if any.
UsbFaults ==
    {"none", "kernel_driver_active", "detach_kernel_driver", "claim_interface",
     "release_interface"}

\* UsbPrinter::claim.  The kernel driver, if one is attached, is detached
\* before the interface is claimed (Linux).
claim(printer, device, fault) ==
    IF printer.claimed THEN [printer |-> printer, device |-> device, result |-> "Ok"]
    ELSE IF ~printer.handle
    THEN [printer |-> printer, device |-> device, result |-> "DeviceNotFound"]
    ELSE IF fault = "kernel_driver_active"
    THEN [printer |-> printer, device |-> device, result |-> "Usb"]
    ELSE IF device.kernel /\ fault = "detach_kernel_driver"
    THEN [printer |-> printer, device |-> device, result |-> "Usb"]
    ELSE LET called == [device EXCEPT !.kernel = FALSE,
                                      !.claim_interface = @ + 1]
         IN IF fault = "claim_interface"
            THEN [printer |-> printer, device |-> called, result |-> "Usb"]
            ELSE [printer |-> [printer EXCEPT !.claimed = TRUE],
                  device |-> [called EXCEPT !.interface = TRUE],
                  result |-> "Ok"]

\* A mutation of release: the flag is cleared before the interface is
\* released.
release_ClearsFirst(printer, device, fault) ==
    IF ~printer.claimed THEN [printer |-> printer, device |-> device, result |-> "Ok"]
    ELSE IF printer.handle /\ fault = "release_interface"
    THEN [printer |-> [printer EXCEPT !.claimed = FALSE],
          device |-> [device EXCEPT !.release_interface = @ + 1],
          result |-> "Usb"]
    ELSE [printer |-> [printer EXCEPT !.claimed = FALSE],
          device |-> IF printer.handle
                     THEN [device EXCEPT !.interface = FALSE, !.release_interface = @ + 1]
                     ELSE device,
          result |-> "Ok"]

\* UsbPrinter::release
release(printer, device, fault) ==
    IF ~printer.claimed THEN [printer |-> printer, device |-> device, result |-> "Ok"]
    ELSE IF printer.handle /\ fault = "release_interface"
    THEN [printer |-> printer,
          device |-> [device EXCEPT !.release_interface = @ + 1],
          result |-> "Usb"]
    ELSE [printer |-> [printer EXCEPT !.claimed = FALSE],
          device |-> IF printer.handle
                     THEN [device EXCEPT !.interface = FALSE, !.release_interface = @ + 1]
                     ELSE device,
          result |-> "Ok"]

\* UsbPrinterDevice::open has returned a printer: a handle, not claimed;
\* a kernel driver is attached to the interface or not.
InitUsb ==
    /\ RenderIdle
    /\ ProbeIdle
    /\ PrinterIdle
    /\ BarcodeIdle
    /\ QrIdle
    /\ u_pc = "open"
    /\ u_printer = [handle |-> TRUE, claimed |-> FALSE]
    /\ \E kernel \in BOOLEAN :
          u_device = [interface |-> FALSE, kernel |-> kernel, claim_interface |-> 0,
                      release_interface |-> 0]
    /\ u_last = "none"
    /\ u_result = "none"
    /\ u_calls = 0
    /\ u_split = "none"

\* The state after a call of claim or release that has returned.
UsbReturn(name, returned, next_pc) ==
    /\ u_printer' = returned.printer
    /\ u_device' = returned.device
    /\ u_result' = returned.result
    /\ u_last' = name
    /\ u_calls' = u_calls + 1
    /\ u_pc' = next_pc
    /\ UNCHANGED notUsb

\* printer.claim()
Claim ==
    /\ u_pc = "open"
    /\ u_calls < MaxUsbCalls
    /\ \E fault \in UsbFaults : UsbReturn("claim", claim(u_printer, u_device, fault), "open")
    /\ UNCHANGED u_split

\* printer.release()
Release ==
    /\ u_pc = "open"
    /\ u_calls < MaxUsbCalls
    /\ \E fault \in UsbFaults :
          UsbReturn("release", release(u_printer, u_device, fault), "open")
    /\ UNCHANGED u_split

\* A mutation of take: the handle is copied and stays in the printer.
take_Copied(printer) == printer

\* self.handle.take()
take(printer) == [printer EXCEPT !.handle = FALSE]

\* UsbPrinter::split, its call of claim: on an error split returns it and
\* the printer is dropped.
SplitClaim ==
    /\ u_pc = "open"
    /\ \E fault \in UsbFaults :
          LET returned == claim(u_printer, u_device, fault)
          IN /\ UsbReturn("claim", returned,
                          IF returned.result = "Ok" THEN "split" ELSE "dropping")
             /\ u_split' = IF returned.result = "Ok" THEN u_split ELSE returned.result

\* UsbPrinter::split, after its call of claim: the handle is taken out of
\* the printer and given to the reader and the writer split returns, or
\* DeviceNotFound is returned for want of a handle; the printer is dropped
\* when split returns.
SplitTake ==
    /\ u_pc = "split"
    /\ u_printer' = take(u_printer)
    /\ u_split' = IF u_printer.handle THEN "Ok" ELSE "DeviceNotFound"
    /\ u_pc' = "dropping"
    /\ UNCHANGED <<u_device, u_last, u_result, u_calls>>
    /\ UNCHANGED notUsb

\* Drop for UsbPrinter: let _ = self.release(), when split returns or when
\* the printer goes out of scope.
Drop ==
    /\ u_pc \in {"open", "dropping"}
    /\ \E fault \in UsbFaults :
          UsbReturn("release", release(u_printer, u_device, fault), "dropped")
    /\ UNCHANGED u_split

NextUsb == Claim \/ Release \/ SplitClaim \/ SplitTake \/ Drop

SpecUsb == InitUsb /\ [][NextUsb]_vars

(***************************************************************************)
(* The output as the device reads it.  A byte ESC or GS opens a command of *)
(* three bytes (ESC E n, ESC - n, ESC G n, GS B n, ESC { n, ESC V n); any  *)
(* other byte is a character, printed with the attributes in force.        *)
(***************************************************************************)
BoolAttrs == {"bold", "double_strike", "reverse", "upside_down", "rotated"}

Attrs == BoolAttrs \cup {"underline"}

\* The attribute a command of two leading bytes sets.
AttrOfCommand(b1, b2) ==
    CASE b1 = 27 /\ b2 = 69 -> "bold"
      [] b1 = 27 /\ b2 = 45 -> "underline"
      [] b1 = 27 /\ b2 = 71 -> "double_strike"
      [] b1 = 29 /\ b2 = 66 -> "reverse"
      [] b1 = 27 /\ b2 = 123 -> "upside_down"
      [] b1 = 27 /\ b2 = 86 -> "rotated"
      [] OTHER -> "unknown"

RECURSIVE Tokens(_)
\* The commands and characters of a byte sequence, in order.
Tokens(bytes) ==
    IF bytes = <<>> THEN <<>>
    ELSE IF bytes[1] \in {27, 29} /\ Len(bytes) >= 3
    THEN <<[kind |-> "cmd", attr |-> AttrOfCommand(bytes[1], bytes[2]), n |-> bytes[3]]>>
         \o Tokens(SubSeq(bytes, 4, Len(bytes)))
    ELSE <<[kind |-> "char", attr |-> "none", n |-> bytes[1]]>> \o Tokens(Tail(bytes))

\* The attributes of the device after a command.
DeviceApply(dev, tok) ==
    IF tok.attr = "underline"
    THEN [dev EXCEPT !.underline =
              IF tok.n = 2 THEN "Double" ELSE IF tok.n = 1 THEN "Single" ELSE "None"]
    ELSE IF tok.attr \in BoolAttrs THEN [dev EXCEPT ![tok.attr] = (tok.n = 1)]
    ELSE dev

RECURSIVE DeviceAfter(_, _)
\* The attributes of the device after a sequence of tokens.
DeviceAfter(dev, toks) ==
    IF toks = <<>> THEN dev
    ELSE IF Head(toks).kind = "cmd" THEN DeviceAfter(DeviceApply(dev, Head(toks)), Tail(toks))
    ELSE DeviceAfter(dev, Tail(toks))

RECURSIVE Printed(_, _)
\* The characters printed by a sequence of tokens, each with the attributes
\* of the device when it is printed.
Printed(dev, toks) ==
    IF toks = <<>> THEN <<>>
    ELSE IF Head(toks).kind = "cmd" THEN Printed(DeviceApply(dev, Head(toks)), Tail(toks))
    ELSE <<[byte |-> Head(toks).n, style |-> dev]>> \o Printed(dev, Tail(toks))

\* Whether a style requests an attribute.
Requests(style, a) == IF a = "underline" THEN style.underline # "None" ELSE style[a]

\* The commands that switch on what a style requests, and those that switch
\* it off again, as pairs of attribute and parameter byte.
EnableSet(style) ==
    {<<a, 1>> : a \in {b \in BoolAttrs : style[b]}}
    \cup (IF style.underline = "Double" THEN {<<"underline", 2>>}
          ELSE IF style.underline = "Single" THEN {<<"underline", 1>>}
          ELSE {})

DisableSet(style) == {<<a, 0>> : a \in {b \in Attrs : Requests(style, b)}}

\* Tokens lo..hi are commands, one for each pair of the set.
IsCommandBlock(toks, lo, hi, want) ==
    /\ hi - lo + 1 = Cardinality(want)
    /\ hi <= Len(toks)
    /\ \A i \in lo..hi : toks[i].kind = "cmd"
    /\ {<<toks[i].attr, toks[i].n>> : i \in lo..hi} = want

\* Tokens lo+1..lo+Len(s) are the characters of s.
IsTextBlock(toks, lo, s) ==
    /\ lo + Len(s) <= Len(toks)
    /\ \A i \in 1..Len(s) : toks[lo + i].kind = "char" /\ toks[lo + i].n = s[i]

\* The number of commands among tokens lo..hi that set attribute a on (or off).
CountCommands(toks, lo, hi, a, on) ==
    Cardinality({i \in lo..hi :
        toks[i].kind = "cmd" /\ toks[i].attr = a /\ ((toks[i].n # 0) = on)})

\* The style requested by a sequence of enclosing styles: a boolean is on
\* when one of them has it on, the underline is the strongest of theirs.
RequestedBy(styles) ==
    [bold |-> \E i \in DOMAIN styles : styles[i].bold,
     underline |->
         IF \E i \in DOMAIN styles : styles[i].underline = "Double" THEN "Double"
         ELSE IF \E i \in DOMAIN styles : styles[i].underline = "Single" THEN "Single"
         ELSE "None",
     double_strike |-> \E i \in DOMAIN styles : styles[i].double_strike,
     reverse |-> \E i \in DOMAIN styles : styles[i].reverse,
     upside_down |-> \E i \in DOMAIN styles : styles[i].upside_down,
     rotated |-> \E i \in DOMAIN styles : styles[i].rotated]

RECURSIVE ExpectedPrint(_, _), ExpectedPrintAll(_, _)
\* The characters of a tree in depth-first order, each with the style
\* requested by the groups that enclose its leaf.
ExpectedPrint(node, enclosing) ==
    IF node.kind = "Text"
    THEN [i \in 1..Len(node.text) |->
             [byte |-> node.text[i], style |-> RequestedBy(enclosing)]]
    ELSE ExpectedPrintAll(node.children, Append(enclosing, node.style))

ExpectedPrintAll(nodes, enclosing) ==
    IF nodes = <<>> THEN <<>>
    ELSE ExpectedPrint(Head(nodes), enclosing) \o ExpectedPrintAll(Tail(nodes), enclosing)

RECURSIVE GroupStyles(_), GroupStylesAll(_)
\* The styles of the groups of a tree.
GroupStyles(node) ==
    IF node.kind = "Text" THEN {}
    ELSE {node.style} \cup GroupStylesAll(node.children)

GroupStylesAll(nodes) ==
    IF nodes = <<>> THEN {} ELSE GroupStyles(Head(nodes)) \cup GroupStylesAll(Tail(nodes))

RECURSIVE LeafText(_), LeafTextAll(_)
\* The texts of the leaves of a tree, in depth-first order, joined.
LeafText(node) ==
    IF node.kind = "Text" THEN node.text ELSE LeafTextAll(node.children)

LeafTextAll(nodes) ==
    IF nodes = <<>> THEN <<>> ELSE LeafText(Head(nodes)) \o LeafTextAll(Tail(nodes))

\* A group of one style around one text leaf.
IsStyledText(node) ==
    /\ node.kind = "Styled"
    /\ Len(node.children) = 1
    /\ node.children[1].kind = "Text"

\* The tree a.append(b) of two groups a and b, each around one text leaf.
IsSiblingPair(node) ==
    /\ node.kind = "Styled"
    /\ node.style = StyleSetDefault
    /\ Len(node.children) = 2
    /\ IsStyledText(node.children[1])
    /\ IsStyledText(node.children[2])

(***************************************************************************)
(* C1.  Sibling isolation.  For a = Group(sa, [Text ta]) and               *)
(* b = Group(sb, [Text tb]), render(a.append(b)) is the commands enabling  *)
(* sa, then ta, then the commands disabling sa, then the commands enabling *)
(* sb, then tb, then the commands disabling sb, and nothing else; and the  *)
(* device prints ta with exactly sa and tb with exactly sb.                *)
(***************************************************************************)
C1_SiblingIsolation ==
    (pc = "done" /\ IsSiblingPair(tree)) =>
        LET sa == tree.children[1].style
            ta == tree.children[1].children[1].text
            sb == tree.children[2].style
            tb == tree.children[2].children[1].text
            ka == Cardinality(EnableSet(sa))
            kb == Cardinality(EnableSet(sb))
            toks == Tokens(output)
            p1 == ka
            p2 == p1 + Len(ta)
            p3 == p2 + ka
            p4 == p3 + kb
            p5 == p4 + Len(tb)
        IN /\ Len(toks) = p5 + kb
           /\ IsCommandBlock(toks, 1, p1, EnableSet(sa))
           /\ IsTextBlock(toks, p1, ta)
           /\ IsCommandBlock(toks, p2 + 1, p3, DisableSet(sa))
           /\ IsCommandBlock(toks, p3 + 1, p4, EnableSet(sb))
           /\ IsTextBlock(toks, p4, tb)
           /\ IsCommandBlock(toks, p5 + 1, p5 + kb, DisableSet(sb))
           /\ Printed(StyleSetDefault, toks) =
                  [i \in 1..Len(ta) |-> [byte |-> ta[i], style |-> sa]]
                  \o [i \in 1..Len(tb) |-> [byte |-> tb[i], style |-> sb]]

\* Two siblings are rendered whose styles share bold and differ in the rest:
\* a is bold, reverse and underlined, b is bold and double underlined.
C1_Witness ==
    /\ pc = "done"
    /\ IsSiblingPair(tree)
    /\ tree.children[1].style =
           with_underline(with_reverse(with_bold(StyleSetDefault, TRUE), TRUE), TRUE)
    /\ tree.children[2].style =
           with_double_underline(with_bold(StyleSetDefault, TRUE), TRUE)
    /\ Len(output) = 3 * 3 + 1 + 3 * 3 + 2 * 3 + 1 + 2 * 3

(***************************************************************************)
(* C2.  Nested styles reach every text segment.  When render has returned, *)
(* the characters the device prints from a baseline state are those of the *)
(* leaves in depth-first order, each printed with the boolean OR and the   *)
(* strongest underline of the styles of exactly the groups enclosing its   *)
(* leaf.                                                                   *)
(***************************************************************************)
C2_NestedStylesApplied ==
    pc = "done" => Printed(StyleSetDefault, Tokens(output)) = ExpectedPrint(tree, <<>>)

\* A single-underline group holds a double-underline group and then a text:
\* the text after the inner group is printed with the single underline.
C2_Witness ==
    /\ pc = "done"
    /\ tree = Styled(with_underline(StyleSetDefault, TRUE),
                     <<Styled(with_double_underline(StyleSetDefault, TRUE), <<text(<<65>>)>>),
                       text(<<66>>)>>)
    /\ LET printed == Printed(StyleSetDefault, Tokens(output))
       IN /\ Len(printed) = 2
          /\ printed[1].style.underline = "Double"
          /\ printed[2].style.underline = "Single"

RECURSIVE InnerGroupStyles(_)
\* The styles of the groups below the root of a tree.
InnerGroupStyles(node) ==
    IF node.kind = "Text" THEN {} ELSE GroupStylesAll(node.children)

\* Attribute a is switched on once, in the block of commands that opens the
\* output, and off once, in the block that closes it, and no command for it
\* lies between the two blocks; k is the length of each block.
OnceAtEntryAndExit(toks, k, a) ==
    /\ 2 * k <= Len(toks)
    /\ CountCommands(toks, 1, k, a, TRUE) = 1
    /\ CountCommands(toks, 1, k, a, FALSE) = 0
    /\ CountCommands(toks, k + 1, Len(toks) - k, a, TRUE) = 0
    /\ CountCommands(toks, k + 1, Len(toks) - k, a, FALSE) = 0
    /\ CountCommands(toks, Len(toks) - k + 1, Len(toks), a, TRUE) = 0
    /\ CountCommands(toks, Len(toks) - k + 1, Len(toks), a, FALSE) = 1

(***************************************************************************)
(* C3.  Outer-style preservation.  When the outer group enables attribute  *)
(* A and holds inner groups none of which mentions A, the output opens     *)
(* with the enable commands of the outer style and closes with its disable *)
(* commands, A is enabled once in the opening block and disabled once in   *)
(* the closing block, and no command for A lies between them (none at the  *)
(* entry or exit of an inner group).                                       *)
(***************************************************************************)
C3_OuterStylePreserved ==
    (pc = "done" /\ tree.kind = "Styled" /\ InnerGroupStyles(tree) # {}) =>
        LET toks == Tokens(output)
            k == Cardinality(EnableSet(tree.style))
        IN \A a \in Attrs :
              (Requests(tree.style, a)
               /\ \A inner \in InnerGroupStyles(tree) : ~Requests(inner, a)) =>
                  /\ IsCommandBlock(toks, 1, k, EnableSet(tree.style))
                  /\ IsCommandBlock(toks, Len(toks) - k + 1, Len(toks),
                                    DisableSet(tree.style))
                  /\ OnceAtEntryAndExit(toks, k, a)

\* An underlined group holds a bold group and then a text; the bold group is
\* entered and left with the underline untouched.
C3_Witness ==
    /\ pc = "done"
    /\ tree = Styled(with_underline(StyleSetDefault, TRUE),
                     <<Styled(with_bold(StyleSetDefault, TRUE), <<text(<<65>>)>>),
                       text(<<66>>)>>)
    /\ output = <<27, 45, 1, 27, 69, 1, 65, 27, 69, 0, 66, 27, 45, 0>>

(***************************************************************************)
(* C4.  Baseline round-trip.  When render has returned, a device that      *)
(* starts in the baseline state and obeys the commands of the output in    *)
(* order is in the baseline state again: every attribute switched on in    *)
(* the output has been switched off before the output ends.                *)
(***************************************************************************)
C4_BaselineRoundTrip ==
    pc = "done" => DeviceAfter(StyleSetDefault, Tokens(output)) = StyleSetDefault

\* A nest of two groups that together switch on every attribute has been
\* rendered, with commands in the output.
C4_Witness ==
    /\ pc = "done"
    /\ tree.kind = "Styled"
    /\ \E i \in 1..Len(tree.children) : tree.children[i].kind = "Styled"
    /\ LET toks == Tokens(output)
       IN /\ \A a \in Attrs : CountCommands(toks, 1, Len(toks), a, TRUE) >= 1
          /\ \E i \in 1..Len(toks) :
                toks[i].kind = "cmd" /\ toks[i].attr = "underline" /\ toks[i].n = 2

\* Attribute a is requested by the root at a level that no inner group
\* exceeds: for a boolean, the root has it on; for the underline, the root
\* has it Single and no inner group Double, or the root has it Double.
RootLevelNotExceeded(node, a) ==
    /\ Requests(node.style, a)
    /\ (a = "underline" /\ node.style.underline = "Single") =>
           \A inner \in InnerGroupStyles(node) : inner.underline # "Double"

\* The renderer is about to enter a group.
EnteringGroup ==
    /\ pc = "walk"
    /\ agenda # <<>>
    /\ Head(agenda).op = "visit"
    /\ Head(agenda).node.kind = "Styled"

\* The renderer is about to leave a group.
LeavingGroup ==
    /\ pc = "walk"
    /\ agenda # <<>>
    /\ Head(agenda).op = "leave"

\* The style requested by the groups around the group being left.
EnclosingStyle == RequestedBy(SubSeq(style_stack, 1, Len(style_stack) - 1))

\* The underline levels in the order None < Single < Double.
UnderlineRank(level) ==
    IF level = "Double" THEN 2 ELSE IF level = "Single" THEN 1 ELSE 0

\* A group of this style lies inside groups that request attribute a already,
\* at a level at least as strong as its own: around is what those groups
\* request together.
AlreadyEnabledAround(style, around, a) ==
    /\ Requests(style, a)
    /\ Requests(around, a)
    /\ a = "underline" =>
           UnderlineRank(style.underline) <= UnderlineRank(around.underline)

\* A group that requests the Double underline where the groups around it
\* request the Single one.
DoubleInsideSingle(style, around) ==
    style.underline = "Double" /\ around.underline = "Single"

\* The step leaves the output as it was and appends these bytes to it.
Appended == SubSeq(output', Len(output) + 1, Len(output'))

\* The parameter bytes of the commands of attribute a among the tokens, in
\* order.
ParametersOf(toks, a) ==
    LET cmds == SelectSeq(toks, LAMBDA t : t.kind = "cmd" /\ t.attr = a)
    IN [i \in 1..Len(cmds) |-> cmds[i].n]

(***************************************************************************)
(* C5, as stated.  When a group that enables attribute A lies at any depth *)
(* inside the outer group, which already enables A, the whole output holds *)
(* one enable command for A and one disable command for A.                 *)
(***************************************************************************)
C5_Original ==
    (pc = "done" /\ tree.kind = "Styled") =>
        LET toks == Tokens(output)
        IN \A a \in Attrs :
              (Requests(tree.style, a)
               /\ \E inner \in InnerGroupStyles(tree) : Requests(inner, a)) =>
                  /\ CountCommands(toks, 1, Len(toks), a, TRUE) = 1
                  /\ CountCommands(toks, 1, Len(toks), a, FALSE) = 1

(***************************************************************************)
(* C5, amended.  Three statements on every tree.  First, the step that     *)
(* enters a group and the step that leaves it append no command for an     *)
(* attribute A the group enables when the groups around it, at any depth,  *)
(* enable A already at a level at least as strong (always so for a boolean *)
(* attribute; for the underline, unless the group asks for Double where    *)
(* Single is in force around it).  Second, when the rendered outer group   *)
(* enables A, holds a group that enables A, and holds no group that asks   *)
(* for A at a stronger level than its own, the whole output holds one      *)
(* enable command for A, in the block of commands that opens it, and one   *)
(* disable command for A, in the block that closes it.  Third, a group     *)
(* that asks for the Double underline where Single is in force around it   *)
(* appends the Double command, and no other underline command, when it is  *)
(* entered and the Single command, and no other, when it is left.          *)
(***************************************************************************)
C5_MinimalDiff ==
    /\ [][EnteringGroup =>
             LET style == Head(agenda).node.style
                 around == RequestedBy(style_stack)
                 toks == Tokens(Appended)
             IN /\ SubSeq(output', 1, Len(output)) = output
                /\ \A a \in Attrs :
                      AlreadyEnabledAround(style, around, a) =>
                          ParametersOf(toks, a) = <<>>
                /\ DoubleInsideSingle(style, around) =>
                      ParametersOf(toks, "underline") = <<2>>]_vars
    /\ [][LeavingGroup =>
             LET style == Head(agenda).node.style
                 around == EnclosingStyle
                 toks == Tokens(Appended)
             IN /\ SubSeq(output', 1, Len(output)) = output
                /\ \A a \in Attrs :
                      AlreadyEnabledAround(style, around, a) =>
                          ParametersOf(toks, a) = <<>>
                /\ DoubleInsideSingle(style, around) =>
                      ParametersOf(toks, "underline") = <<1>>]_vars
    /\ []((pc = "done" /\ tree.kind = "Styled") =>
             LET toks == Tokens(output)
                 k == Cardinality(EnableSet(tree.style))
             IN \A a \in Attrs :
                   (RootLevelNotExceeded(tree, a)
                    /\ \E inner \in InnerGroupStyles(tree) : Requests(inner, a)) =>
                       OnceAtEntryAndExit(toks, k, a))

\* A bold and reverse group holds a Single underline group, which holds a
\* Double underline group, which holds a bold group: bold is switched on once
\* and off once, at the two ends, the innermost group adds nothing, and the
\* Double underline group puts Double in force and Single back.
C5_Witness ==
    /\ pc = "done"
    /\ tree = Styled(with_reverse(with_bold(StyleSetDefault, TRUE), TRUE),
                     <<Styled(with_underline(StyleSetDefault, TRUE),
                              <<Styled(with_double_underline(StyleSetDefault, TRUE),
                                       <<Styled(with_bold(StyleSetDefault, TRUE),
                                                <<>>)>>)>>)>>)
    /\ output = <<27, 69, 1, 29, 66, 1, 27, 45, 1, 27, 45, 2,
                  27, 45, 1, 27, 45, 0, 27, 69, 0, 29, 66, 0>>

\* The attributes whose value differs between two styles.
Differing(before, after) == {a \in Attrs : before[a] # after[a]}

\* The parameter byte that sets attribute a to its value in a style.
ParameterFor(style, a) ==
    IF a = "underline"
    THEN (IF style.underline = "Double" THEN 2
          ELSE IF style.underline = "Single" THEN 1 ELSE 0)
    ELSE (IF style[a] THEN 1 ELSE 0)

\* The commands of a list that set attribute a, by their index.
CommandsFor(cmds, a) ==
    {i \in 1..Len(cmds) : AttrOfCommand(cmds[i][1], cmds[i][2]) = a}

(***************************************************************************)
(* C6.  The transition function returns, for every pair of styles, one     *)
(* command for each attribute whose value differs, setting it to its value *)
(* in the second style, and no command for an attribute whose value is the *)
(* same; so the number of commands is the number of differing attributes   *)
(* (one for Double to Single too) and no command is returned for a pair of *)
(* equal styles.                                                           *)
(***************************************************************************)
C6_OneCommandPerDifference ==
    probe_pc = "return" =>
        /\ Len(probe_commands) = Cardinality(Differing(probe_from, probe_to))
        /\ \A i \in 1..Len(probe_commands) : Len(probe_commands[i]) = 3
        /\ \A a \in Attrs :
              IF a \in Differing(probe_from, probe_to)
              THEN /\ Cardinality(CommandsFor(probe_commands, a)) = 1
                   /\ \A i \in CommandsFor(probe_commands, a) :
                         probe_commands[i][3] = ParameterFor(probe_to, a)
              ELSE CommandsFor(probe_commands, a) = {}
        /\ (probe_from = probe_to => probe_commands = <<>>)

\* The function has returned for a pair that steps the underline down from
\* Double to Single and changes two more attributes.
C6_Witness ==
    /\ probe_pc = "return"
    /\ probe_from.underline = "Double"
    /\ probe_to.underline = "Single"
    /\ Differing(probe_from, probe_to) = {"underline", "bold", "rotated"}
    /\ Len(probe_commands) = 3

(***************************************************************************)
(* C7.  Combination rule for the booleans.  During the traversal each of   *)
(* bold, double-strike, reverse, upside-down and rotated is effective      *)
(* exactly when an entry of the scope stack enables it; and a step that    *)
(* turns an effective boolean attribute off is a pop (it shortens the      *)
(* stack), never a push.                                                   *)
(***************************************************************************)
C7_BooleanOr ==
    /\ [](pc = "walk" =>
             \A a \in BoolAttrs :
                current_effective[a] <=> \E i \in DOMAIN style_stack : style_stack[i][a])
    /\ [][(\E a \in BoolAttrs : current_effective[a] /\ ~current_effective'[a])
             => Len(style_stack') < Len(style_stack)]_vars

\* A group that does not ask for bold or reverse is open inside a group that
\* asks for both: they stay effective.
C7_Witness ==
    /\ pc = "walk"
    /\ Len(style_stack) = 3
    /\ style_stack[2].bold /\ style_stack[2].reverse
    /\ ~style_stack[3].bold /\ ~style_stack[3].reverse /\ style_stack[3].rotated
    /\ current_effective.bold /\ current_effective.reverse /\ current_effective.rotated

(***************************************************************************)
(* C8.  Combination rule for the underline.  During the traversal the      *)
(* effective underline is the strongest level an entry of the scope stack  *)
(* asks for, Double over Single over None, wherever the entry lies.        *)
(***************************************************************************)
C8_StrongestUnderline ==
    pc = "walk" =>
        current_effective.underline =
            IF \E i \in DOMAIN style_stack : style_stack[i].underline = "Double"
            THEN "Double"
            ELSE IF \E i \in DOMAIN style_stack : style_stack[i].underline = "Single"
            THEN "Single"
            ELSE "None"

\* A Single group is open inside a Double group and the underline is Double;
\* the other way round is reached as well.
C8_Witness ==
    /\ pc = "walk"
    /\ Len(style_stack) = 3
    /\ style_stack[2].underline = "Double"
    /\ style_stack[3].underline = "Single"
    /\ current_effective.underline = "Double"

\* No group of the tree requests an attribute.
NoAttributes(node) == GroupStyles(node) \subseteq {StyleSetDefault}

(***************************************************************************)
(* C9.  A tree in which no group requests an attribute renders to the      *)
(* texts of its leaves, joined in order, and no command byte: a bare leaf  *)
(* renders to its own text.                                                *)
(***************************************************************************)
C9_PlainTextOnly ==
    (pc = "done" /\ NoAttributes(tree)) =>
        /\ output = LeafText(tree)
        /\ (tree.kind = "Text" => output = tree.text)

\* A bare leaf of the longest text has been rendered.
C9_Witness ==
    /\ pc = "done"
    /\ tree.kind = "Text"
    /\ Len(tree.text) = MaxTextLen
    /\ output = tree.text

\* The bytes that open and close the output of each helper.
HelperEnable ==
    [bold |-> <<27, 69, 1>>, underlined |-> <<27, 45, 1>>,
     double_underlined |-> <<27, 45, 2>>, reversed |-> <<29, 66, 1>>,
     double_strike |-> <<27, 71, 1>>, upside_down |-> <<27, 123, 1>>,
     rotated |-> <<27, 86, 1>>]

HelperDisable ==
    [bold |-> <<27, 69, 0>>, underlined |-> <<27, 45, 0>>,
     double_underlined |-> <<27, 45, 0>>, reversed |-> <<29, 66, 0>>,
     double_strike |-> <<27, 71, 0>>, upside_down |-> <<27, 123, 0>>,
     rotated |-> <<27, 86, 0>>]

(***************************************************************************)
(* C10.  A string rendered under a single-attribute helper is the enable   *)
(* command of that attribute, the bytes of the string, and the disable     *)
(* command of that attribute, and nothing else.                            *)
(***************************************************************************)
C10_HelperOutput ==
    (pc = "done" /\ helper \in Helpers) =>
        /\ IsStyledText(tree)
        /\ output = HelperEnable[helper] \o tree.children[1].text \o HelperDisable[helper]

\* "AB" has been rendered under underlined.
C10_Witness ==
    /\ pc = "done"
    /\ helper = "underlined"
    /\ output = <<27, 45, 1, 65, 66, 27, 45, 0>>

(***************************************************************************)
(* C11.  render_line returns the bytes of render followed by one line      *)
(* feed (0x0A): the line feed is the last byte, every command of the       *)
(* output comes before it and leaves the device at the baseline, and the   *)
(* bytes before it are those of render, none changed.                      *)
(***************************************************************************)
C11_LineIsRenderThenLineFeed ==
    pc = "line" =>
        /\ Len(line) = Len(output) + 1
        /\ line[Len(line)] = 10
        /\ SubSeq(line, 1, Len(output)) = output
        /\ LET toks == Tokens(line)
           IN /\ toks[Len(toks)] = [kind |-> "char", attr |-> "none", n |-> 10]
              /\ DeviceAfter(StyleSetDefault, SubSeq(toks, 1, Len(toks) - 1))
                     = StyleSetDefault

\* render_line has returned the line of a styled tree: the output of render
\* ends in a command that switches an attribute off, and the line feed
\* follows it.
C11_Witness ==
    /\ pc = "line"
    /\ Len(output) >= 3
    /\ Len(line) = Len(output) + 1
    /\ line[Len(line)] = 10
    /\ line[Len(line) - 3] \in {27, 29}
    /\ line[Len(line) - 1] = 0

(***************************************************************************)
(* C12.  append(a, b) is the group of the default style over a and b: the  *)
(* style of the new group is all attributes off whatever the styles of a   *)
(* and b, its children are a then b, each as it was before the call, and   *)
(* the nodes constructed before a and b are left as they were.             *)
(***************************************************************************)
C12_AppendIsNeutralGroup ==
    [][(pc = "build" /\ helper' = "append" /\ built' # built) =>
          LET n == Len(built)
              a == built[n - 1]
              b == built[n]
              group == built'[n - 1]
          IN /\ n >= 2
             /\ Len(built') = n - 1
             /\ SubSeq(built', 1, n - 2) = SubSeq(built, 1, n - 2)
             /\ group.kind = "Styled"
             /\ group.style = [bold |-> FALSE, underline |-> "None",
                               double_strike |-> FALSE, reverse |-> FALSE,
                               upside_down |-> FALSE, rotated |-> FALSE]
             /\ Len(group.children) = 2
             /\ group.children[1] = a
             /\ group.children[2] = b]_vars

\* append has been called on a group that requests an attribute and a bare
\* leaf: the group is the first child, with its style, and the new group
\* requests nothing.
C12_Witness ==
    /\ pc = "build"
    /\ helper = "append"
    /\ Len(built) = 1
    /\ built[1].kind = "Styled"
    /\ built[1].style = StyleSetDefault
    /\ Len(built[1].children) = 2
    /\ built[1].children[1].kind = "Styled"
    /\ built[1].children[1].style # StyleSetDefault
    /\ built[1].children[2].kind = "Text"

\* The bytes of a call of the printer, from its name and argument.
CallBytes(entry) ==
    CASE entry.call = "send" -> entry.arg
      [] entry.call = "send_raw" -> entry.arg
      [] entry.call = "print" -> render(entry.arg)
      [] entry.call = "println" -> render_line(entry.arg)
      [] entry.call = "print_page" -> PageBuild(entry.arg)
      [] entry.call = "print_page_and_exit" -> PageBuildAndExit(entry.arg)
      [] entry.call = "query" -> entry.arg

RECURSIVE Concatenation(_)
\* The bytes of the calls of a log, in the order of the calls.
Concatenation(log) ==
    IF log = <<>> THEN <<>> ELSE CallBytes(Head(log)) \o Concatenation(Tail(log))

IsPrefix(s, t) == Len(s) <= Len(t) /\ SubSeq(t, 1, Len(s)) = s

(***************************************************************************)
(* C14.  As long as every call of the printer has returned Ok, the writer  *)
(* under it has received a prefix of the concatenation of the bytes of the *)
(* calls in call order, the rest of the concatenation is what the buffer   *)
(* holds, and once flush has returned Ok the writer has received the       *)
(* concatenation itself: no byte added, dropped, duplicated or reordered.  *)
(***************************************************************************)
C14_WriterReceivesCallsInOrder ==
    ~p_failed =>
        /\ IsPrefix(p_writer.inner, Concatenation(p_log))
        /\ p_writer.inner \o p_writer.buf = Concatenation(p_log)
        /\ (p_last = "flush" /\ p_result = "Ok") =>
               /\ p_writer.inner = Concatenation(p_log)
               /\ p_writer.buf = <<>>

\* println of a bold text, print_page and flush have returned Ok in that
\* order, and the writer holds the line and the page.
C14_Witness ==
    /\ ~p_failed
    /\ p_last = "flush"
    /\ p_result = "Ok"
    /\ Len(p_log) = 2
    /\ p_log[1].call = "println"
    /\ p_log[1].arg.kind = "Styled"
    /\ p_log[2].call = "print_page"
    /\ p_writer.inner = <<27, 69, 1, 65, 66, 27, 69, 0, 10, 27, 76, 12>>

\* What the writer under the BufWriter has received once the bytes buffered
\* when query was called and the bytes of its command are delivered.
DeliveredByQuery == p_entry.inner \o p_entry.buf \o QueryEncode(p_cmd)

(***************************************************************************)
(* C15.  query flushes before it reads.  The reader is read only at the    *)
(* read of query, and at that point the buffer is empty and the writer has *)
(* received, in order, what it had received before, the bytes buffered by  *)
(* the calls before and the bytes of the query command.  A query whose     *)
(* write or flush fails returns the I/O error without a read of the        *)
(* reader.                                                                 *)
(***************************************************************************)
C15_QueryFlushesBeforeRead ==
    /\ [](p_pc = "query_read" =>
             /\ p_writer.buf = <<>>
             /\ p_writer.inner = DeliveredByQuery)
    /\ [][/\ p_reads' # p_reads =>
                /\ p_pc = "query_read"
                /\ p_writer.buf = <<>>
                /\ p_writer.inner = DeliveredByQuery
                /\ p_writer' = p_writer
          /\ (p_pc \in {"ready", "query_flush"} /\ p_last' = "query" /\ p_result' = "Io") =>
                /\ p_reads' = p_reads
                /\ p_pc' = "ready"]_vars

\* A query called with bytes in the buffer has read its response after the
\* writer received those bytes and DLE EOT 1.
C15_Witness ==
    /\ p_pc = "ready"
    /\ p_last = "query"
    /\ p_result = "Ok"
    /\ p_reads = 1
    /\ p_cmd = [kind |-> "TransmitStatus", n |-> 1]
    /\ p_entry.buf = <<27, 69, 1>>
    /\ p_writer.buf = <<>>
    /\ p_writer.inner = <<27, 69, 1, 16, 4, 1>>

(***************************************************************************)
(* C16.  A query that has read the reader returns NoResponse exactly when  *)
(* the read returned no byte.  When the read returned n bytes, n from 1 to *)
(* 64, parse_response is called once, with those n bytes: it is never      *)
(* called with the empty slice, so the result is never StatusParse of      *)
(* EmptyResponse; the result is Ok with the response parsed, or             *)
(* StatusParse with the error of parse_response.  TransmitStatus parses    *)
(* every such slice.                                                       *)
(***************************************************************************)
C16_NoResponseIffZeroBytes ==
    (p_pc = "ready" /\ p_last = "query") =>
        /\ p_result = "NoResponse" <=> (p_got.result = "Ok" /\ Len(p_got.bytes) = 0)
        /\ p_parsed # <<>> <=> (p_got.result = "Ok" /\ Len(p_got.bytes) > 0)
        /\ p_parsed # <<>> =>
               /\ p_parsed = <<p_got.bytes>>
               /\ Len(p_parsed[1]) >= 1
               /\ Len(p_parsed[1]) <= 64
               /\ p_result \in {"Ok", "StatusParse"}
               /\ p_cmd.kind = "TransmitStatus" =>
                      /\ p_result = "Ok"
                      /\ p_value.kind = CASE p_cmd.n = 1 -> "Printer"
                                          [] p_cmd.n = 2 -> "Offline"
                                          [] p_cmd.n = 3 -> "Error"
                                          [] p_cmd.n = 4 -> "PaperRoll"
        /\ p_result = "StatusParse" <=> p_value.kind \in {"EmptyResponse", "InvalidStatus"}
        /\ p_value.kind # "EmptyResponse"
        /\ p_result = "StatusParse" =>
               /\ p_parsed # <<>>
               /\ p_value = [kind |-> "InvalidStatus", byte |-> p_parsed[1][1]]

\* The read of a query has returned no byte and the query NoResponse,
\* without a call of parse_response.
C16_Witness ==
    /\ p_pc = "ready"
    /\ p_last = "query"
    /\ p_reads = 1
    /\ p_got = [result |-> "Ok", bytes |-> <<>>]
    /\ p_parsed = <<>>
    /\ p_result = "NoResponse"

\* The lengths each barcode system takes.
LengthRange ==
    [UpcA |-> 11..12, UpcE |-> 11..12, Jan13 |-> 12..13, Jan8 |-> 7..8,
     Code39 |-> 1..255, Itf |-> 2..255, Codabar |-> 1..255, Code93 |-> 1..255,
     Code128 |-> 2..255]

\* The bytes each barcode system takes: the digits; for CODE39 the digits,
\* the capitals and " $%*+-./"; for CODABAR the digits, A to D and "$+-./:";
\* for CODE93 and CODE128 the 7-bit bytes.
CharacterSet ==
    [UpcA |-> 48..57, UpcE |-> 48..57, Jan13 |-> 48..57, Jan8 |-> 48..57,
     Itf |-> 48..57,
     Code39 |-> (48..57) \cup (65..90) \cup {32, 36, 37, 42, 43, 45, 46, 47},
     Codabar |-> (48..57) \cup (65..68) \cup {36, 43, 45, 46, 47, 58},
     Code93 |-> 0..127, Code128 |-> 0..127]

\* The data is of a length, a parity and bytes the system takes.
Acceptable(system, data) ==
    /\ Len(data) \in LengthRange[system]
    /\ system = "Itf" => Len(data) % 2 = 0
    /\ \A i \in DOMAIN data : data[i] \in CharacterSet[system]

(***************************************************************************)
(* C17.  PrintBarcode::new returns Ok exactly when the length of the data  *)
(* is in the range of the system, even for ITF, and every byte is in the   *)
(* character set of the system.  On Ok the value holds the system and the  *)
(* data given; otherwise the result is a BarcodeError and holds no value.  *)
(***************************************************************************)
C17_BarcodeAcceptedIffValid ==
    b_pc = "return" =>
        /\ b_result.kind = "Ok" <=> Acceptable(b_system, b_data)
        /\ Acceptable(b_system, b_data) =>
               b_result = [kind |-> "Ok", system |-> b_system, data |-> b_data]
        /\ ~Acceptable(b_system, b_data) =>
               /\ b_result.kind \in
                      {"InvalidLength", "ItfRequiresEvenLength", "InvalidCharacter"}
               /\ "data" \in DOMAIN b_result => b_result.kind = "InvalidCharacter"

\* ITF data of 254 digits has been accepted, and stored as given.
C17_Witness ==
    /\ b_pc = "return"
    /\ b_system = "Itf"
    /\ Len(b_data) = 254
    /\ b_result.kind = "Ok"
    /\ b_result.system = "Itf"
    /\ b_result.data = b_data

(***************************************************************************)
(* C18.  PrintQrCode::new returns EmptyData on empty data, DataTooLong     *)
(* with the length on data longer than 7089 bytes, and otherwise Ok with   *)
(* Model2, Size3, level L and the data as given.  The with_ methods leave  *)
(* the data of such a value as it is.  In the bytes encode returns for     *)
(* such a value, whatever its model, module size and level, the header of  *)
(* the store-data function carries the length of the data plus 3 in two    *)
(* bytes pL, pH, low byte first: pL + 256 * pH is that number, and the     *)
(* data follows the header.                                                *)
(***************************************************************************)
C18_QrNewAndStoreHeader ==
    /\ q_pc \in {"with", "encoded"} => (q_result.kind = "Ok" /\ q_result.data = q_data)
    /\ q_pc = "return" =>
           q_result =
               IF Len(q_data) = 0 THEN [kind |-> "EmptyData"]
               ELSE IF Len(q_data) > 7089
               THEN [kind |-> "DataTooLong", len |-> Len(q_data)]
               ELSE [kind |-> "Ok", model |-> "Model2", module_size |-> "Size3",
                     error_correction |-> "L", data |-> q_data]
    /\ q_pc = "encoded" =>
           /\ Len(q_bytes) = 25 + 8 + Len(q_data) + 8
           /\ SubSeq(q_bytes, 26, 28) = <<29, 40, 107>>
           /\ q_bytes[29] \in 0..255
           /\ q_bytes[30] \in 0..255
           /\ q_bytes[29] + 256 * q_bytes[30] = Len(q_data) + 3
           /\ SubSeq(q_bytes, 31, 33) = <<49, 80, 48>>
           /\ SubSeq(q_bytes, 34, 33 + Len(q_data)) = q_data

\* The longest data taken, 7089 bytes, has been encoded: the header carries
\* 7092 as 180, 27.
C18_Witness ==
    /\ q_pc = "encoded"
    /\ Len(q_data) = 7089
    /\ q_result.kind = "Ok"
    /\ q_bytes[29] = 180
    /\ q_bytes[30] = 27

(***************************************************************************)
(* C19.  The claimed flag of the USB printer over the calls of claim and   *)
(* release, each of which may fail.  claim on a claimed printer returns Ok *)
(* without a call of claim_interface, release on an unclaimed printer      *)
(* returns Ok without a call of release_interface; the flag becomes true   *)
(* only in a claim whose claim_interface succeeded, and false only in a    *)
(* release whose release_interface succeeded or that found no handle; a    *)
(* call that returns an error leaves the flag as it was.  While the        *)
(* printer has its handle, a true flag means the interface is claimed on   *)
(* the device.                                                             *)
(***************************************************************************)
C19_ClaimedFlagConsistent ==
    /\ []((u_printer.handle /\ u_printer.claimed) => u_device.interface)
    /\ [][LET returns == u_calls' = u_calls + 1
          IN /\ (returns /\ u_last' = "claim" /\ u_printer.claimed) =>
                    /\ u_result' = "Ok"
                    /\ u_device'.claim_interface = u_device.claim_interface
                    /\ u_printer'.claimed
             /\ (returns /\ u_last' = "release" /\ ~u_printer.claimed) =>
                    /\ u_result' = "Ok"
                    /\ u_device'.release_interface = u_device.release_interface
                    /\ ~u_printer'.claimed
             /\ (~u_printer.claimed /\ u_printer'.claimed) =>
                    /\ returns
                    /\ u_last' = "claim"
                    /\ u_result' = "Ok"
                    /\ u_device'.claim_interface = u_device.claim_interface + 1
                    /\ u_device'.interface
             /\ (u_printer.claimed /\ ~u_printer'.claimed) =>
                    /\ returns
                    /\ u_last' = "release"
                    /\ u_result' = "Ok"
                    /\ \/ ~u_printer.handle
                       \/ /\ u_device'.release_interface = u_device.release_interface + 1
                          /\ ~u_device'.interface
             /\ (returns /\ u_result' # "Ok") =>
                    u_printer'.claimed = u_printer.claimed]_vars

\* A claim whose claim_interface failed has left the printer unclaimed, the
\* claim after it has claimed it, and a release whose release_interface
\* failed has left it claimed.
C19_Witness ==
    /\ u_pc = "open"
    /\ u_calls = 3
    /\ u_last = "release"
    /\ u_result = "Usb"
    /\ u_printer.claimed
    /\ u_device.claim_interface = 2
    /\ u_device.release_interface = 1
    /\ u_device.interface

\* The commands of a list that set the underline (ESC - n), in order.
UnderlineCommands(cmds) == SelectSeq(cmds, LAMBDA c : c[1] = 27 /\ c[2] = 45)

(***************************************************************************)
(* C20.  Underline transitions.  The transition function returns the       *)
(* Double command (ESC - 2) when the underline changes to Double from None *)
(* or from Single, the Single command (ESC - 1) when it changes to Single  *)
(* from None, and one disable command (ESC - 0) and no other underline     *)
(* command when it changes to None from Single or from Double.             *)
(***************************************************************************)
C20_UnderlineTransitions ==
    probe_pc = "return" =>
        LET before == probe_from.underline
            after == probe_to.underline
            commands == UnderlineCommands(probe_commands)
        IN /\ (after = "Double" /\ before \in {"None", "Single"}) =>
                  commands = <<<<27, 45, 2>>>>
           /\ (after = "Single" /\ before = "None") => commands = <<<<27, 45, 1>>>>
           /\ (after = "None" /\ before \in {"Single", "Double"}) =>
                  commands = <<<<27, 45, 0>>>>

\* The function has returned for a pair that takes the underline from
\* Double to None and sets bold: the disable command is the one underline
\* command.
C20_Witness ==
    /\ probe_pc = "return"
    /\ probe_from.underline = "Double"
    /\ probe_to.underline = "None"
    /\ ~probe_from.bold
    /\ probe_to.bold
    /\ Len(probe_commands) = 2
    /\ UnderlineCommands(probe_commands) = <<<<27, 45, 0>>>>

(***************************************************************************)
(* The renderer and the transition function side by side: a tree is built  *)
(* and rendered, or the transition function is called on a pair of styles. *)
(***************************************************************************)
InitOrder == Init \/ InitTransition

NextOrder == Next \/ NextTransition

SpecOrder == InitOrder /\ [][NextOrder]_vars

\* The canonical order of the attributes (specification, section 4.3).
CanonicalOrder ==
    <<"bold", "underline", "double_strike", "reverse", "upside_down", "rotated">>

\* The place of an attribute in the canonical order.
Rank(a) == CHOOSE i \in 1..Len(CanonicalOrder) : CanonicalOrder[i] = a

\* The attributes of tokens lo..hi, in order.
AttrSeq(toks, lo, hi) == [i \in 1..(hi - lo + 1) |-> toks[lo + i - 1].attr]

\* The tokens are commands, for attributes in strictly ascending
\* canonical order.
InCanonicalOrder(toks) ==
    /\ \A i \in 1..Len(toks) : toks[i].kind = "cmd" /\ toks[i].attr \in Attrs
    /\ \A i, j \in 1..Len(toks) : i < j => Rank(toks[i].attr) < Rank(toks[j].attr)

\* The tokens hold one command for each attribute that differs between the
\* two styles, setting it to its value in the second.
CoversDifferences(toks, before, after) ==
    /\ {toks[i].attr : i \in 1..Len(toks)} = Differing(before, after)
    /\ \A i \in 1..Len(toks) : toks[i].n = ParameterFor(after, toks[i].attr)

\* The two leading bytes of the command of each attribute.
CommandPrefix ==
    [bold |-> <<27, 69>>, underline |-> <<27, 45>>, double_strike |-> <<27, 71>>,
     reverse |-> <<29, 66>>, upside_down |-> <<27, 123>>, rotated |-> <<27, 86>>]

RECURSIVE CanonicalBytes(_, _, _)
\* The bytes of one command for each attribute, from the i-th of the
\* canonical order on, that differs between the two styles.
CanonicalBytes(i, before, after) ==
    IF i > Len(CanonicalOrder) THEN <<>>
    ELSE LET a == CanonicalOrder[i]
         IN (IF before[a] # after[a]
             THEN Append(CommandPrefix[a], ParameterFor(after, a)) ELSE <<>>)
            \o CanonicalBytes(i + 1, before, after)

\* The bytes a step of the renderer appends to the output.
Emitted == SubSeq(output', Len(output) + 1, Len(output'))

(***************************************************************************)
(* C21.  Canonical command order.  The commands of one transition come in  *)
(* the order bold, underline, double-strike, reverse, upside-down,         *)
(* rotated, whether each switches its attribute on or off: so for the      *)
(* transition function called on any pair of styles, and so for the bytes  *)
(* the renderer emits on entering and on leaving a group, which are the    *)
(* commands of the attributes that differ between the effective styles     *)
(* before and after the step, in that order, and nothing else.  When two   *)
(* sibling groups have been rendered, the commands that close each group   *)
(* name the attributes in the same order as the commands that open it.     *)
(***************************************************************************)
C21_CanonicalCommandOrder ==
    /\ [](probe_pc = "return" =>
             /\ InCanonicalOrder(Tokens(Flatten(probe_commands)))
             /\ CoversDifferences(Tokens(Flatten(probe_commands)), probe_from, probe_to))
    /\ [][(pc = "walk" /\ Len(style_stack') # Len(style_stack)) =>
             Emitted = CanonicalBytes(1, current_effective, current_effective')]_vars
    /\ []((pc = "done" /\ IsSiblingPair(tree)) =>
             LET toks == Tokens(output)
                 ka == Cardinality(EnableSet(tree.children[1].style))
                 kb == Cardinality(EnableSet(tree.children[2].style))
                 ta == Len(tree.children[1].children[1].text)
                 tb == Len(tree.children[2].children[1].text)
                 b0 == 2 * ka + ta
             IN /\ AttrSeq(toks, 1, ka) = AttrSeq(toks, ka + ta + 1, b0)
                /\ AttrSeq(toks, b0 + 1, b0 + kb) =
                       AttrSeq(toks, b0 + kb + tb + 1, b0 + 2 * kb + tb))

\* Two siblings have been rendered, the first with every attribute and the
\* double underline, the second reversed and rotated: each group is opened
\* and closed by its commands in canonical order.
C21_Witness ==
    /\ pc = "done"
    /\ IsSiblingPair(tree)
    /\ output =
           <<27, 69, 1, 27, 45, 2, 27, 71, 1, 29, 66, 1, 27, 123, 1, 27, 86, 1,
             65,
             27, 69, 0, 27, 45, 0, 27, 71, 0, 29, 66, 0, 27, 123, 0, 27, 86, 0,
             29, 66, 1, 27, 86, 1,
             66,
             29, 66, 0, 27, 86, 0>>

\* The frames of render_recursive on the groups being traversed, from the
\* innermost.
OpenFrames == SelectSeq(agenda, LAMBDA e : e.op = "leave")

\* The groups being traversed, from the root to the current one.
OpenGroups ==
    LET frames == OpenFrames
    IN [i \in 1..Len(frames) |-> frames[Len(frames) + 1 - i].node] \o <<>>

\* The groups are a path of the tree: the first is the root and each other
\* one is a child of the one before it.
IsPathFromRoot(groups) ==
    /\ groups # <<>> => groups[1] = tree
    /\ \A i \in 1..(Len(groups) - 1) :
          \E j \in 1..Len(groups[i].children) : groups[i].children[j] = groups[i + 1]

(***************************************************************************)
(* C22.  Scope stack balance.  At every step of render the scope stack is  *)
(* the default style at the bottom followed by the styles of the groups    *)
(* being traversed, from the root to the current one; it is never empty,   *)
(* and when the traversal has ended, and when render has returned, it is   *)
(* the single default style it started with.  Entering a group pushes its  *)
(* style, leaving that group pops it, and no other step changes the stack. *)
(***************************************************************************)
C22_ScopeStackBalance ==
    /\ [](pc = "walk" =>
             LET groups == OpenGroups
             IN /\ IsPathFromRoot(groups)
                /\ style_stack =
                       <<StyleSetDefault>>
                       \o [i \in 1..Len(groups) |-> groups[i].style]
                /\ (agenda = <<>> => style_stack = <<StyleSetDefault>>))
    /\ [](pc \in {"done", "line"} => style_stack = <<StyleSetDefault>>)
    /\ [][pc = "walk" =>
             IF agenda = <<>> THEN style_stack' = style_stack
             ELSE IF Head(agenda).op = "leave"
             THEN style_stack = style_stack' \o <<Head(agenda).node.style>>
             ELSE IF Head(agenda).node.kind = "Styled"
             THEN style_stack' = style_stack \o <<Head(agenda).node.style>>
             ELSE style_stack' = style_stack]_vars

\* Inside a bold group inside an underlined group inside the root the stack
\* holds four styles, the default lowest.
C22_Witness ==
    /\ pc = "walk"
    /\ Len(OpenGroups) = 3
    /\ style_stack =
           <<StyleSetDefault, StyleSetDefault, with_underline(StyleSetDefault, TRUE),
             with_bold(StyleSetDefault, TRUE)>>
    /\ output # <<>>

RECURSIVE Depth(_)
\* The number of groups on the longest path from a node down to a leaf.
Depth(node) ==
    IF node.kind = "Text" THEN 0
    ELSE 1 + (IF node.children = <<>> THEN 0
              ELSE LET d == {Depth(node.children[i]) : i \in 1..Len(node.children)}
                   IN CHOOSE m \in d : \A n \in d : n <= m)

(***************************************************************************)
(* C23.  When the traversal of any tree has finished, and before the       *)
(* closing reset of render is computed, current_effective is the baseline  *)
(* (every attribute off, no underline); the closing reset then appends no  *)
(* byte to the output.                                                     *)
(***************************************************************************)
C23_BaselineBeforeReset ==
    /\ []((pc = "walk" /\ agenda = <<>>) => current_effective = StyleSetDefault)
    /\ [][(pc = "walk" /\ agenda = <<>>) => output' = output]_vars

\* The traversal of three nested groups around a text has finished; between
\* them the groups switched bold, reverse and both underlines on and off.
C23_Witness ==
    /\ pc = "walk"
    /\ agenda = <<>>
    /\ tree = Styled(with_underline(StyleSetDefault, TRUE),
               <<Styled(with_reverse(with_bold(StyleSetDefault, TRUE), TRUE),
                        <<Styled(with_double_underline(StyleSetDefault, TRUE),
                                 <<text(<<65>>)>>)>>)>>)
    /\ Depth(tree) = 3
    /\ Len(output) = 8 * 3 + 1
    /\ current_effective = StyleSetDefault

\* The renderer is about to leave a group that has no children: the commands
\* of its entry are the last bytes of the output.
LeavingEmptyGroup ==
    /\ pc = "walk"
    /\ agenda # <<>>
    /\ Head(agenda).op = "leave"
    /\ Head(agenda).node.children = <<>>

\* The attributes the group being left requests and the groups around it do
\* not.
NewlyEnabled ==
    {a \in Attrs : Requests(Head(agenda).node.style, a) /\ ~Requests(EnclosingStyle, a)}

\* The number of attributes whose value the group being left changes.
ChangedByGroup == Cardinality(Differing(EnclosingStyle, RequestedBy(style_stack)))

\* Token i switches attribute a on (or off).
Switches(toks, i, a, on) ==
    toks[i].kind = "cmd" /\ toks[i].attr = a /\ ((toks[i].n # 0) = on)

(***************************************************************************)
(* C24, as stated.  When a group with no children is left whose style      *)
(* enables an attribute A that is not active around it, the output ends    *)
(* with the enable command of A immediately followed by the disable        *)
(* command of A, no byte between them.                                     *)
(***************************************************************************)
C24_Original ==
    [][LeavingEmptyGroup =>
          LET toks == Tokens(output')
              n == Len(toks)
              d == ChangedByGroup
          IN \A a \in NewlyEnabled :
                \E i \in (n - 2 * d + 1)..(n - 1) :
                   Switches(toks, i, a, TRUE) /\ Switches(toks, i + 1, a, FALSE)]_vars

(***************************************************************************)
(* C24, amended.  When a group with no children is left whose style        *)
(* enables attributes that are not active around it, the output ends with  *)
(* the commands of its entry immediately followed by the commands of its   *)
(* exit, no text between them: each such attribute A is enabled once among *)
(* the former and disabled once among the latter, at the same place in     *)
(* both.  The disable command of A directly follows its enable command     *)
(* when A is the only attribute the group changes; otherwise the enable    *)
(* commands of the group's other attributes lie between them.              *)
(***************************************************************************)
C24_EmptyGroupEmitsPair ==
    [][LeavingEmptyGroup =>
          LET d == ChangedByGroup
              enabled == NewlyEnabled
              m == Len(output')
              \* the last 2 * d commands of the output, of three bytes each:
              \* where command j begins, its attribute, and whether it enables
              at(j) == m - 6 * d + 3 * (j - 1)
              attr(j) == AttrOfCommand(output'[at(j) + 1], output'[at(j) + 2])
              on(j) == output'[at(j) + 3] # 0
          IN /\ m = Len(output) + 3 * d
             /\ SubSeq(output', 1, Len(output)) = output
             /\ m >= 6 * d
             /\ \A j \in 1..(2 * d) : output'[at(j) + 1] \in {ESC, GS}
             /\ \A a \in enabled :
                   \E i \in 1..d :
                      /\ attr(i) = a /\ on(i)
                      /\ attr(i + d) = a /\ ~on(i + d)
                      /\ \A j \in 1..(2 * d) : attr(j) = a => j \in {i, i + d}
             /\ d = 1 =>
                   \A a \in enabled : attr(1) = a /\ on(1) /\ attr(2) = a /\ ~on(2)]_vars

\* An underlined group holds a bold group without children and then a text:
\* bold is switched on and at once off again before the text.
C24_Witness ==
    /\ pc = "done"
    /\ tree = Styled(with_underline(StyleSetDefault, TRUE),
                     <<Styled(with_bold(StyleSetDefault, TRUE), <<>>), text(<<66>>)>>)
    /\ output = <<27, 45, 1, 27, 69, 1, 27, 69, 0, 66, 27, 45, 0>>

\* The attributes the group being left requests that the groups around it
\* request already.
AlreadyActive ==
    {a \in Attrs : Requests(Head(agenda).node.style, a) /\ Requests(EnclosingStyle, a)}

(***************************************************************************)
(* C25, as stated.  When a group with no children is left whose style      *)
(* enables an attribute that is already active around it, the commands of  *)
(* its entry and exit, which end the output, hold an enable command for    *)
(* that attribute followed by a disable command for it.                    *)
(***************************************************************************)
C25_Original ==
    [][LeavingEmptyGroup =>
          LET toks == Tokens(output')
              n == Len(toks)
              d == ChangedByGroup
          IN \A a \in AlreadyActive :
                \E i, j \in (n - 2 * d + 1)..n :
                   i < j /\ Switches(toks, i, a, TRUE) /\ Switches(toks, j, a, FALSE)]_vars

\* The renderer is about to enter a group that has no children.
EnteringEmptyGroup == EnteringGroup /\ Head(agenda).node.children = <<>>

\* The commands that take a device from one style to another: one for each
\* attribute whose value differs, with the parameter of its new value.
CommandsBetween(before, after) ==
    {<<a, ParameterFor(after, a)>> : a \in Differing(before, after)}

(***************************************************************************)
(* C25, amended.  A group with no children still goes through its entry    *)
(* and exit transitions, one step directly after the other.  The step that *)
(* enters it appends one command for each attribute whose value the group  *)
(* changes, and nothing else; the step that leaves it appends one command  *)
(* for each of these attributes that puts the value around the group back, *)
(* and nothing else, and the enclosing effective style is in force again.  *)
(* For an attribute the group enables that is already enabled around it at *)
(* a level at least as strong (always so for a boolean attribute; for the  *)
(* underline, unless the group asks for Double where Single is in force),  *)
(* neither step appends a command: the output holds no no-op enable and no *)
(* disable for that attribute there.  An empty Double underline group      *)
(* where Single is in force appends the Double command at its entry and    *)
(* the Single command at its exit.                                         *)
(***************************************************************************)
C25_EmptyGroupNoRedundantPair ==
    /\ [][EnteringEmptyGroup =>
             LET node == Head(agenda).node
                 around == RequestedBy(style_stack)
                 inside == RequestedBy(Append(style_stack, node.style))
                 toks == Tokens(Appended)
             IN /\ SubSeq(output', 1, Len(output)) = output
                /\ IsCommandBlock(toks, 1, Len(toks), CommandsBetween(around, inside))
                /\ \A a \in Attrs :
                      AlreadyEnabledAround(node.style, around, a) =>
                          ParametersOf(toks, a) = <<>>
                /\ DoubleInsideSingle(node.style, around) =>
                      ParametersOf(toks, "underline") = <<2>>
                /\ current_effective' = inside
                /\ agenda' # <<>>
                /\ Head(agenda') = Leave(node)]_vars
    /\ [][LeavingEmptyGroup =>
             LET node == Head(agenda).node
                 around == EnclosingStyle
                 inside == RequestedBy(style_stack)
                 toks == Tokens(Appended)
             IN /\ SubSeq(output', 1, Len(output)) = output
                /\ IsCommandBlock(toks, 1, Len(toks), CommandsBetween(inside, around))
                /\ \A a \in Attrs :
                      AlreadyEnabledAround(node.style, around, a) =>
                          ParametersOf(toks, a) = <<>>
                /\ DoubleInsideSingle(node.style, around) =>
                      ParametersOf(toks, "underline") = <<1>>
                /\ current_effective' = around]_vars

\* A Single underline group holds a Single underline group without children,
\* a Double underline group without children and then a text: the first
\* adds nothing, the second puts Double in force and Single back, and the
\* text is printed with the Single underline still on.
C25_Witness ==
    /\ pc = "done"
    /\ tree = Styled(with_underline(StyleSetDefault, TRUE),
                     <<Styled(with_underline(StyleSetDefault, TRUE), <<>>),
                       Styled(with_double_underline(StyleSetDefault, TRUE), <<>>),
                       text(<<66>>)>>)
    /\ output = <<27, 45, 1, 27, 45, 2, 27, 45, 1, 66, 27, 45, 0>>

\* The bytes of a sequence of tokens that are characters, in order: what is
\* left of the output when the commands are removed.
Characters(toks) ==
    LET chars == SelectSeq(toks, LAMBDA t : t.kind = "char")
    IN [i \in 1..Len(chars) |-> chars[i].n]

\* The renderer is about to visit a Text leaf.
VisitingText ==
    /\ pc = "walk"
    /\ agenda # <<>>
    /\ Head(agenda).op = "visit"
    /\ Head(agenda).node.kind = "Text"

(***************************************************************************)
(* C26.  Text is emitted verbatim and in order.  When render has returned, *)
(* the output without its commands is the texts of the leaves of the tree  *)
(* joined in depth-first, left-to-right order, so that every byte of every *)
(* leaf is there once.  The visit of a Text leaf appends the bytes of the  *)
(* leaf to the output, unchanged and in one piece, keeps what the output   *)
(* held, and changes neither the scope stack nor current_effective.        *)
(***************************************************************************)
C26_TextVerbatimInOrder ==
    /\ [](pc = "done" => Characters(Tokens(output)) = LeafText(tree))
    /\ [][VisitingText =>
             /\ output' = output \o Head(agenda).node.text
             /\ style_stack' = style_stack
             /\ current_effective' = current_effective]_vars

\* A bold group holds the text A and then an underlined group with the text
\* B: the output without its four commands is AB.
C26_Witness ==
    /\ pc = "done"
    /\ tree = Styled(with_bold(StyleSetDefault, TRUE),
                     <<text(<<65>>),
                       Styled(with_underline(StyleSetDefault, TRUE), <<text(<<66>>)>>)>>)
    /\ output = <<27, 69, 1, 65, 27, 45, 1, 66, 27, 45, 0, 27, 69, 0>>
    /\ Characters(Tokens(output)) = <<65, 66>>

RECURSIVE Strip(_), StripAll(_)
\* A node without its default-style groups: the children of such a group
\* take its place among the children of the group around it.
Strip(node) ==
    IF node.kind = "Text" THEN <<node>>
    ELSE IF node.style = StyleSetDefault THEN StripAll(node.children)
    ELSE <<Styled(node.style, StripAll(node.children))>>

StripAll(nodes) ==
    IF nodes = <<>> THEN <<>> ELSE Strip(Head(nodes)) \o StripAll(Tail(nodes))

RECURSIVE RenderEach(_)
\* render of each node of a sequence, joined.
RenderEach(nodes) ==
    IF nodes = <<>> THEN <<>> ELSE render(Head(nodes)) \o RenderEach(Tail(nodes))

(***************************************************************************)
(* C27.  The neutral wrapper is transparent to rendering.  When render has *)
(* returned on a.append(b), the output is render(a) followed by render(b); *)
(* on a default-style group around nodes, it is render of each node in     *)
(* turn, so render(Group(default, [n])) = render(n); and on any tree it is *)
(* the output of the tree with every default-style group taken out, at     *)
(* whatever depth and inside whatever styled groups the wrappers sit.  The *)
(* trees looked at are those that hold a default-style group.              *)
(***************************************************************************)
C27_NeutralWrapperTransparent ==
    []((pc = "done" /\ StyleSetDefault \in GroupStyles(tree)) =>
          /\ helper = "append" =>
                 /\ Len(tree.children) = 2
                 /\ output = render(tree.children[1]) \o render(tree.children[2])
          /\ tree.style = StyleSetDefault => output = RenderEach(tree.children)
          /\ output = RenderEach(Strip(tree)))

\* "A".bold().append("B") has been rendered: the bytes of the bold A, then B.
C27_Witness ==
    /\ pc = "done"
    /\ helper = "append"
    /\ tree = append(bold(text(<<65>>)), text(<<66>>))
    /\ output = <<27, 69, 1, 65, 27, 69, 0, 66>>
    /\ output = render(bold(text(<<65>>))) \o render(text(<<66>>))

\* Enable and disable take turns, an enable first and a disable last, so
\* that there are as many of the one as of the other.
Alternates(params) ==
    /\ \A i \in 1..Len(params) : params[i] = (IF i % 2 = 1 THEN 1 ELSE 0)
    /\ Len(params) % 2 = 0

(***************************************************************************)
(* C28.  When render has returned, the commands of each boolean attribute  *)
(* in the output, taken in order, are enable, disable, enable, disable and *)
(* so on, the first an enable and the last a disable: no enable is emitted *)
(* while the attribute is on in the device, no disable while it is off,    *)
(* and there are as many enables as disables.                              *)
(***************************************************************************)
C28_EnableDisableAlternate ==
    [](pc = "done" =>
          LET toks == Tokens(output)
          IN \A a \in BoolAttrs : Alternates(ParametersOf(toks, a)))

\* Two bold and reversed siblings have been rendered, the second rotated as
\* well: bold and reverse are switched on and off twice.
C28_Witness ==
    /\ pc = "done"
    /\ IsSiblingPair(tree)
    /\ output = <<27, 69, 1, 29, 66, 1, 65, 27, 69, 0, 29, 66, 0,
                  27, 69, 1, 29, 66, 1, 27, 86, 1, 66, 27, 69, 0, 29, 66, 0, 27, 86, 0>>
    /\ ParametersOf(Tokens(output), "bold") = <<1, 0, 1, 0>>

\* The places, from 1, of the bytes of the data that the system does not
\* take.
BadPlaces(system, data) == {i \in 1..Len(data) : data[i] \notin CharacterSet[system]}

(***************************************************************************)
(* C29.  The errors of PrintBarcode::new come in a fixed precedence.  A    *)
(* length outside the range of the system gives InvalidLength with the     *)
(* length and the least and greatest length of the system, whatever the    *)
(* parity and the bytes of the data.  A length in the range that is odd    *)
(* gives, for ITF, ItfRequiresEvenLength with the length, whatever the     *)
(* bytes.  InvalidCharacter is returned only when the length is in the     *)
(* range, and even for ITF, and then whenever a byte is not taken by the   *)
(* system: its span is of length 1 and starts at the index, from 0, of the *)
(* first such byte, in the data given and in the string reported alike.    *)
(***************************************************************************)
C29_BarcodeErrorPrecedence ==
    b_pc = "return" =>
        LET n == Len(b_data)
            range == LengthRange[b_system]
            bad == BadPlaces(b_system, b_data)
        IN /\ n \notin range =>
                  /\ b_result.kind = "InvalidLength"
                  /\ b_result.actual = n
                  /\ b_result.min \in range /\ \A k \in range : b_result.min <= k
                  /\ b_result.max \in range /\ \A k \in range : k <= b_result.max
           /\ (n \in range /\ b_system = "Itf" /\ n % 2 = 1) =>
                  b_result = [kind |-> "ItfRequiresEvenLength", actual |-> n]
           /\ b_result.kind = "InvalidCharacter" <=>
                  /\ n \in range
                  /\ b_system = "Itf" => n % 2 = 0
                  /\ bad # {}
           /\ b_result.kind = "InvalidCharacter" =>
                  /\ b_result.span[2] = 1
                  /\ b_result.span[1] + 1 \in bad
                  /\ \A i \in 1..b_result.span[1] :
                        i \notin bad /\ b_result.data[i] = b_data[i]
                  /\ Len(b_result.data) > b_result.span[1]

\* ITF data of three letters, odd and in the range, has been refused for
\* its length being odd, not for its letters.
C29_Witness ==
    /\ b_pc = "return"
    /\ b_system = "Itf"
    /\ b_data = <<65, 65, 65>>
    /\ b_result = [kind |-> "ItfRequiresEvenLength", actual |-> 3]


\* The step is split's call of claim.
SplitClaims == u_pc = "open" /\ u_pc' \in {"split", "dropping"}

\* The step is the drop of the printer.
Drops == u_pc \in {"open", "dropping"} /\ u_pc' = "dropped"

\* The calls of release_interface the step made.
ReleaseCalls == u_device'.release_interface - u_device.release_interface

\* The calls of claim_interface the step made.
ClaimCalls == u_device'.claim_interface - u_device.claim_interface

\* C30: split calls claim_interface only for a printer not yet claimed (once,
\* unless the claim fails before it gets there) and goes on to hand out the reader and the writer only when the claim
\* returned Ok; it returns them only for a claimed printer, and an error
\* leaves the printer unclaimed.  The drop of a printer whose split returned
\* the reader and the writer calls release_interface never and leaves the
\* interface claimed; the drop of a claimed printer that was never split
\* calls it exactly once; the drop of an unclaimed printer calls it never.
C30_SplitKeepsClaim ==
    /\ [][SplitClaims =>
            /\ u_printer.claimed => ClaimCalls = 0
            /\ ~u_printer.claimed =>
                  (ClaimCalls \in {0, 1} /\ (u_result' = "Ok" => ClaimCalls = 1))
            /\ (u_pc' = "split") = (u_result' = "Ok")
            /\ (u_pc' = "split") => (u_printer'.claimed /\ u_device'.interface)
            /\ (u_pc' = "dropping") => (u_split' = u_result' /\ u_split' # "Ok")]_vars
    /\ [][(u_split = "none" /\ u_split' = "Ok") =>
            (u_printer.claimed /\ u_device.interface /\ u_device' = u_device)]_vars
    /\ [][Drops =>
            /\ u_split = "Ok" => (ReleaseCalls = 0 /\ u_device'.interface)
            /\ (u_split = "none" /\ u_printer.claimed) => ReleaseCalls = 1
            /\ ~u_printer.claimed => ReleaseCalls = 0]_vars
    /\ [](u_split = "Ok" => u_device.interface)

\* A printer was claimed, split and dropped: claim_interface was called once,
\* release_interface never, and the interface is still claimed.
C30_Witness ==
    /\ u_pc = "dropped"
    /\ u_split = "Ok"
    /\ u_device.interface
    /\ u_device.claim_interface = 1
    /\ u_device.release_interface = 0
    /\ ~u_printer.handle

=============================================================================
